---------------------------- MODULE Spec2Model ----------------------------
(***************************************************************************)
(* A model of the carpal asynchronous-programming library:                 *)
(*   - PromiseFuturePairBase / PromiseFuturePair<T>: the shared cell of a  *)
(*     promise-future pair (state, value, exception, callback chain,       *)
(*     mutex), with notify() and addSynchronousCallback();                 *)
(*   - SingleProducerSingleConsumerQueue<Item,Eof>: the bounded queue of   *)
(*     StreamValue elements between one producer and one consumer, with    *)
(*     enqueue(), dequeue() and the two one-shot callbacks;                *)
(*   - ThreadPool: the executor's task queue and its worker thread;        *)
(*   - Future<T>::then: the continuation task of one antecedent;           *)
(*   - OneThreadScheduler and coroutines returning Future<T>.              *)
(* Threads are modelled with an explicit call stack of frames, one frame   *)
(* per active library call, and one model step per lock acquisition,       *)
(* critical section or user-code invocation.                               *)
(***************************************************************************)
EXTENDS Integers, Sequences, FiniteSets, TLC

(***************************************************************************)
(* Bounds of the model.                                                    *)
(***************************************************************************)
\* number of user callbacks registered on the cell in the cell specifications
MaxCbs == 3
\* number of Items the producer of the queue specification enqueues at most
MaxItems == 3
\* number of dequeue() calls the consumer of the queue specification makes
MaxDeqs == 5
\* largest queueSize the queue is constructed with
MaxQueueSize == 2
\* number of one-shot callbacks the clients of the queue install
MaxInstalls == 2
\* number of Items the producer enqueues beside the one-shot callbacks
MaxOnceItems == 2
\* number of tasks, and of coroutine handles, the client of the scheduler
\* specification hands to the scheduler
MaxWork == 2
\* number of units of work, tasks and handles together, the client hands to
\* the scheduler in the specification of waitFor and markCompleted
MaxTokenWork == 1
\* the tasks, and the handles, handed to a pool that is then destroyed
MaxPoolWork == 1

Threads == {"t1", "t2", "t3"}
NoThread == "none"
\* the threads that register callbacks, and the thread that holds the Promise
Registrars == {"t1", "t2"}
Completers == {"t3"}

\* the futures a loop body, an asynchronous continuation or an asynchronous
\* handler returns, in the order they are returned
InnerCells == <<"B1", "B2", "B3", "B4">>

\* the cells (PromiseFuturePair objects) of the model
Cells == {"F", "G", "R", "S"} \cup {InnerCells[i] : i \in DOMAIN InnerCells}
\* a pointer to no cell
NoCell == "null"

\* the executors of the model
Scheds == {"pool", "ots"}

\* PromiseFuturePairBase::State
not_completed == "not_completed"
completed_normally == "completed_normally"
exception == "exception"
States == {not_completed, completed_normally, exception}

Values == {1, 2}
NoVal == 0                \* std::optional<T> without a value
Errors == {"e1", "e2"}
NoErr == "nullptr"        \* std::exception_ptr holding nothing

\* StreamValue<Item,Eof>: the variant of nothing, an Item, an Eof value or an
\* exception
EofValues == {10, 11}
NoEl == [tag |-> "none", v |-> 0, e |-> NoErr]
makeItem(n) == [tag |-> "item", v |-> n, e |-> NoErr]
makeEof(v) == [tag |-> "eof", v |-> v, e |-> NoErr]
makeException(e) == [tag |-> "exc", v |-> 0, e |-> e]
isItem(el) == el.tag = "item"

VARIABLES
    \* ---- PromiseFuturePairBase fields, per cell
    m_state,          \* std::atomic<State> m_state
    m_val,            \* std::optional<T> m_val
    m_exception,      \* std::exception_ptr m_exception
    m_continuations,  \* CallbackType m_continuations: the chain, oldest first
    m_mtx,            \* std::mutex m_mtx: the thread holding it, or NoThread
    movedFrom,        \* m_continuations was moved from and not assigned since
    \* ---- SingleProducerSingleConsumerQueue fields
    m_queueSize,      \* size_t m_queueSize
    m_mutex,          \* std::mutex m_mutex: the thread holding it, or NoThread
    m_queue,          \* std::queue<StreamValue<Item,Eof>> m_queue, front first
    m_valueAvailableCallback,
    m_slotAvailableCallback,
    done,             \* per waiting thread: the local flag of its wait
    \* ---- ThreadPool / OneThreadScheduler fields, per executor
    sched_mtx,        \* std::mutex m_mtx: the thread holding it, or NoThread
    m_tasks,          \* std::queue<std::function<void()>> m_tasks
    m_runnableHandlers, \* std::queue<std::coroutine_handle<void>>
    m_finishedWaiters,  \* std::unordered_set<void const*> m_finishedWaiters
    m_isEnding,       \* bool m_isEnding
    m_cv,             \* std::condition_variable m_cv: the threads blocked in wait
    \* ---- threads
    stack,            \* per thread: the stack of active call frames
    \* ---- history (observations, never read by the program)
    runLog,           \* the callback invocations, in the order they started
    regs,             \* per user callback: its registration call
    before,           \* <<a, b>>: registration a returned before b was called
    compl,            \* the completion calls issued, in the order they began
    enqLog,           \* the elements pushed on the queue, in push order
    deqLog,           \* the elements returned by dequeue(), in return order
    pops,             \* the number of elements removed from the queue
    prod,             \* the producer: its next Item and its call in progress
    cons,             \* the consumer: its calls made and its call in progress
    fLog,             \* the invocations of the function passed to then
    taskLog,          \* the tasks pushed on an executor, in push order
    thenCalls,        \* per result cell: the progress of the then call
    \* ---- coroutines
    coro,             \* per coroutine: its state, where it resumes, m_pScheduler
    segLog,           \* the segments of coroutine bodies that have begun
    \* ---- the continuation task whose cell is R
    taskClass,        \* its class: what it was constructed as, its R and m_futures
    m_currentFuture,  \* ContinuationTaskAsyncLoop::m_currentFuture
    m_pAsyncOpFuture, \* m_pAsyncOpFuture / m_exceptionHandlerFuture
    m_remaining,      \* ContinuationTask::m_remaining
    \* ---- history (observations, never read by the program)
    callLog,          \* the calls of user functions made by continuation tasks
    escaped,          \* the exceptions that left the library, and where to
    \* ---- blocking waits
    cell_cv,          \* per cell: the threads blocked in m_cv.wait(lck)
    fw_mtx,           \* FutureWaiter::m_mtx: the thread holding it, or NoThread
    m_futures,        \* FutureWaiter::m_futures: the futures not yet erased
    m_cond,           \* FutureWaiter::m_cond: the threads blocked in wait
    \* ---- history (observations, never read by the program)
    waitLog,          \* the calls of wait / add / waitAll and their returns
    \* ---- stream coroutines
    promise,          \* per stream: its StreamSourcePromiseType, which is its queue
    handle,           \* per stream: its coroutine, where it resumes and its locals
    \* ---- history (observations, never read by the program)
    streamLog         \* what stream coroutines enqueued and their consumer dequeued

cellVars == <<m_state, m_val, m_exception, m_continuations, m_mtx, movedFrom>>
histVars == <<runLog, regs, before, compl>>
queueVars == <<m_queueSize, m_mutex, m_queue, m_valueAvailableCallback,
               m_slotAvailableCallback, done>>
queueHist == <<enqLog, deqLog, pops, prod, cons>>
\* everything but the cells and the stacks, and everything but the queue and
\* the stacks
schedVars == <<sched_mtx, m_tasks, m_runnableHandlers, m_finishedWaiters, m_isEnding,
               m_cv>>
schedHist == <<fLog, taskLog, thenCalls>>
coVars == <<coro, segLog>>
taskVars == <<taskClass, m_currentFuture, m_pAsyncOpFuture, m_remaining, callLog, escaped>>
waitVars == <<cell_cv, fw_mtx, m_futures, m_cond, waitLog>>
streamVars == <<promise, handle, streamLog>>
outsideCells == <<queueVars, queueHist, schedVars, schedHist, coVars, taskVars, waitVars,
                  streamVars>>
outsideQueue == <<cellVars, regs, before, compl, schedVars, schedHist, coVars, taskVars,
                 waitVars, streamVars>>
outsideSched == <<cellVars, regs, before, compl, queueVars, queueHist, taskVars,
                 waitVars, streamVars>>
vars == <<cellVars, stack, histVars, queueVars, queueHist, schedVars, schedHist, coVars,
          taskVars, waitVars, streamVars>>

(***************************************************************************)
(* Callbacks (std::function<void()>) are records naming what they do.      *)
(***************************************************************************)
UserCb(n) == [kind |-> "user", n |-> n, obj |-> "-", sch |-> "-"]
NoCb == [kind |-> "none", n |-> 0, obj |-> "-", sch |-> "-"]
\* enqueue: [&mtx,&cv,&done]() { lckx(mtx); done = true; cv.notify_all(); }
\* of the wait of thread w
WakeSlotCb(w) == [kind |-> "wake_slot", n |-> 0, obj |-> w, sch |-> "-"]
\* waitForValueAvailable: [this,&cv,&done]() { lckx(m_mutex); done = true;
\* cv.notify_all(); } of the wait of thread w
WakeValueCb(w) == [kind |-> "wake_value", n |-> 0, obj |-> w, sch |-> "-"]
\* the producer's callback [&q,&next]() { q.enqueue(std::move(next)); }
EnqueueCb(n) == [kind |-> "enqueue", n |-> n, obj |-> "-", sch |-> "-"]
\* then: [pRet]() { ContinuationTaskFromOneFuture::onFutureCompleted(pRet); }
\* with pRet the task of cell r and m_pExecutor s
ThenCb(r, s) == [kind |-> "then", n |-> 0, obj |-> r, sch |-> s]
\* onFutureCompleted: [pThis]() noexcept { pThis->computeAndSet(...); ... }
ThenTask(r) == [kind |-> "then_task", n |-> 0, obj |-> r, sch |-> "-"]
\* the std::coroutine_handle of coroutine k
HandleCb(k) == [kind |-> "handle", n |-> k, obj |-> "-", sch |-> "-"]
\* FutureAwaiter::await_suspend: [pScheduler, thisHandler]() {
\* pScheduler->markRunnable(thisHandler); }
ResumeCb(k, s) == [kind |-> "resume", n |-> k, obj |-> "-", sch |-> s]
\* [&dummy, pScheduler]() { pScheduler->markCompleted(&dummy); } of waiter w
MarkCompletedCb(w, s) == [kind |-> "markCompleted", n |-> 0, obj |-> w, sch |-> s]
\* CoroutineSchedulingInfo(pScheduler, startInfo): its scheduler
SchedulingInfo(s) == [kind |-> "schedulingInfo", n |-> 0, obj |-> "-", sch |-> s]
\* the consumer's callback [&q,&v]() { v = q.dequeue(); }
DequeueCb == [kind |-> "dequeue", n |-> 0, obj |-> "-", sch |-> "-"]

\* thenAsyncLoop: [pRet]() { ContinuationTaskAsyncLoop::onFutureCompleted(pRet); }
LoopCb(r) == [kind |-> "loop", n |-> 0, obj |-> r, sch |-> "-"]
\* thenAsync: [pRet]() { ContinuationAsyncTaskFromOneFuture::onFutureCompleted(pRet); }
ThenAsyncCb(r, s) == [kind |-> "then_async", n |-> 0, obj |-> r, sch |-> s]
\* onFutureCompleted: [pThis]() noexcept { m_pAsyncOpFuture = m_func(...); ... }
AsyncTask(r, s) == [kind |-> "async_task", n |-> 0, obj |-> r, sch |-> s]
\* [pThis]() { onInnerFutureCompleted(pThis); }
InnerCb(r, s) == [kind |-> "inner", n |-> 0, obj |-> r, sch |-> s]
\* onInnerFutureCompleted: [pThis]() noexcept { setFromOtherFutureMove(...); ... }
SetFromTask(r) == [kind |-> "set_from_task", n |-> 0, obj |-> r, sch |-> "-"]
\* thenCatchAll: [pRet]() { pRet->onFutureCompleted(); }
CatchAllCb(r, s) == [kind |-> "catch_all", n |-> 0, obj |-> r, sch |-> s]
\* ContinuationTaskCatchAll::onFutureCompleted: [this, pException]() {
\* this->computeAndSet(std::move(m_func), pException); }; the captured
\* exception is carried in the field sch
CatchAllTask(r, pException) ==
    [kind |-> "catch_all_task", n |-> 0, obj |-> r, sch |-> pException]
\* thenCatchAllAsync: [pRet]() { ContinuationTaskAsyncCatchAll::onFutureCompleted(pRet); }
CatchAllAsyncCb(r) == [kind |-> "catch_all_async", n |-> 0, obj |-> r, sch |-> "-"]
\* [pThis]() { pThis->onExceptionHandlerComplete(); }
HandlerCompleteCb(r) == [kind |-> "handler_complete", n |-> 0, obj |-> r, sch |-> "-"]
\* attachContinuations: [pTask]() { ContinuationTask::onFutureCompleted(pTask); }
WhenAllCb(r, s) == [kind |-> "when_all", n |-> 0, obj |-> r, sch |-> s]
\* ContinuationTask::onFutureCompleted: [pThis]() noexcept {
\* pThis->computeAndSetWithTuple(std::move(m_func), std::move(m_futures)); }
WhenAllTask(r) == [kind |-> "when_all_task", n |-> 0, obj |-> r, sch |-> "-"]
\* runAsync: [pf]() { pf->execute(); }
ReadyTask(r) == [kind |-> "ready_task", n |-> 0, obj |-> r, sch |-> "-"]
\* FutureWaiter::add: [this,it](){onFutureComplete(it);}, it the position
\* of the future c in m_futures
WaiterCb(c) == [kind |-> "waiter", n |-> 0, obj |-> c, sch |-> "-"]
\* the coroutine handle of stream coroutine g, and the lambda its awaiters
\* install: [pScheduler, thisHandler]() { pScheduler->markRunnable(thisHandler, true); }
StreamHandleCb(g) == [kind |-> "stream_handle", n |-> 0, obj |-> g, sch |-> "-"]
StreamResumeCb(g) == [kind |-> "stream_resume", n |-> 0, obj |-> g, sch |-> "pool"]
\* the counting callback a client hands to setOnValueAvailableOnceCallback or
\* setOnSlotAvailableOnceCallback: [&count]() { ++count; }, the n-th installed
CountCb(n) == [kind |-> "count", n |-> n, obj |-> "-", sch |-> "-"]

\* where the body of each of these callbacks begins
EntryPc == [loop |-> "loop_ofc", then_async |-> "ta_ofc", async_task |-> "ta_call",
            inner |-> "ta_inner", set_from_task |-> "ta_setfrom",
            catch_all |-> "ca_ofc", catch_all_task |-> "ca_call",
            catch_all_async |-> "caa_ofc", handler_complete |-> "caa_complete",
            when_all |-> "wa_ofc", when_all_task |-> "wa_call",
            ready_task |-> "rt_call", waiter |-> "fw_ofc_lock",
            stream_handle |-> "sc_resume", aux |-> "aux_cb", aux_task |-> "aux_task"]

(***************************************************************************)
(* Call frames.                                                            *)
(***************************************************************************)
Frame(pc, obj, cb, st, val, err, conts) ==
    [pc |-> pc, obj |-> obj, cb |-> cb, st |-> st, val |-> val, err |-> err,
     conts |-> conts, el |-> NoEl]
\* the frame of a call on the queue: v is the StreamValue it carries
QueueFrame(pc, cb, v) ==
    [pc |-> pc, obj |-> "q", cb |-> cb, st |-> not_completed, val |-> NoVal,
     err |-> NoErr, conts |-> <<>>, el |-> v]
\* the frame of a wake-up callback of the wait of thread w
WakeFrame(pc, w) ==
    [pc |-> pc, obj |-> w, cb |-> NoCb, st |-> not_completed, val |-> NoVal,
     err |-> NoErr, conts |-> <<>>, el |-> NoEl]

Depth(t) == Len(stack[t])
Top(t) == stack[t][Len(stack[t])]
Idle(t) == stack[t] = <<>>
At(t, pc) == Depth(t) > 0 /\ Top(t).pc = pc
Popped(t) == SubSeq(stack[t], 1, Len(stack[t]) - 1)
Replaced(t, f) == Append(Popped(t), f)

(***************************************************************************)
(* PromiseFuturePairBase: the pieces of notify() and                       *)
(* addSynchronousCallback().                                               *)
(***************************************************************************)
\* a lock that excludes nobody
CanLock_NoExclusion(t, c) == TRUE

\* std::unique_lock<std::mutex> lck(m_mtx): the lock is free
CanLock(t, c) == m_mtx[c] = NoThread

\* the test that takes only a normal completion for a completion
AlreadyCompleted_OnlyNormal(s) == s = completed_normally

\* addSynchronousCallback: if (m_state != State::not_completed)
AlreadyCompleted(s) == s # not_completed

\* the closure that calls the new callback first: { f(); oldCont(); }
Compose_NewFirst(oldCont, f) == <<f>> \o oldCont

\* addSynchronousCallback: the chain with func added. An empty chain becomes
\* func; otherwise the new chain is the closure { oldCont(); f(); }.
Compose(oldCont, f) == IF oldCont = <<>> THEN <<f>> ELSE oldCont \o <<f>>

\* a notify_all that wakes nobody
NotifyAll_Nobody(waiting) == waiting

\* notify: m_cv.notify_all(): no thread stays blocked in m_cv.wait
NotifyAll(waiting) == {}

\* notify that leaves the state as it was
NotifyState_NotWritten(st) == not_completed

\* notify: m_state = state
NotifyState(st) == st

\* What invoking callback cb, registered on cell c, does on thread t; base is
\* the caller's stack at the invocation.
Invoke(t, cb, c, base) ==
    CASE cb.kind = "user" ->
            /\ runLog' = Append(runLog, [cb |-> cb, thread |-> t, cell |-> c,
                                         site |-> base[Len(base)].pc,
                                         seen |-> m_state[c], val |-> m_val[c],
                                         err |-> m_exception[c]])
            /\ stack' = [stack EXCEPT ![t] = base]
      [] cb.kind = "wake_slot" ->
            /\ stack' = [stack EXCEPT ![t] = Append(base, WakeFrame("wake_slot", cb.obj))]
            /\ UNCHANGED runLog
      [] cb.kind = "wake_value" ->
            /\ stack' = [stack EXCEPT ![t] = Append(base, WakeFrame("wake_value", cb.obj))]
            /\ UNCHANGED runLog
      [] cb.kind = "enqueue" ->
            /\ stack' = [stack EXCEPT ![t] =
                            Append(base, QueueFrame("enq_lock", NoCb, makeItem(cb.n)))]
            /\ UNCHANGED runLog
      [] cb.kind = "dequeue" ->
            /\ stack' = [stack EXCEPT ![t] = Append(base, QueueFrame("deq_lock", NoCb, NoEl))]
            /\ UNCHANGED runLog
      [] cb.kind = "then" ->
            /\ stack' = [stack EXCEPT ![t] =
                            Append(base, Frame("ofc_check", cb.obj, cb, not_completed,
                                               NoVal, NoErr, <<>>))]
            /\ UNCHANGED runLog
      [] cb.kind = "handle" ->
            /\ stack' = [stack EXCEPT ![t] =
                            Append(base, Frame("co_resume", "co", NoCb, not_completed,
                                               cb.n, NoErr, <<>>))]
            /\ UNCHANGED runLog
      [] cb.kind = "resume" ->
            /\ stack' = [stack EXCEPT ![t] =
                            Append(base, Frame("mr_lock", cb.sch, HandleCb(cb.n),
                                               not_completed, NoVal, NoErr, <<>>))]
            /\ UNCHANGED runLog
      [] cb.kind = "markCompleted" ->
            /\ stack' = [stack EXCEPT ![t] =
                            Append(base, Frame("mc_lock", cb.sch, cb, not_completed,
                                               NoVal, NoErr, <<>>))]
            /\ UNCHANGED runLog
      [] cb.kind = "then_task" ->
            /\ stack' = [stack EXCEPT ![t] =
                            Append(base, Frame("cas_call", cb.obj, cb, not_completed,
                                               NoVal, NoErr, <<>>))]
            /\ UNCHANGED runLog
      [] cb.kind = "stream_resume" ->
            /\ stack' = [stack EXCEPT ![t] =
                            Append(base, Frame("mr_lock", cb.sch, StreamHandleCb(cb.obj),
                                               not_completed, NoVal, NoErr, <<>>))]
            /\ UNCHANGED runLog
      [] cb.kind = "count" ->
            /\ runLog' = Append(runLog, [cb |-> cb, thread |-> t, cell |-> c,
                                         site |-> base[Len(base)].pc,
                                         size |-> Len(m_queue),
                                         enqs |-> Len(enqLog), pops |-> pops])
            /\ stack' = [stack EXCEPT ![t] = base]
      [] cb.kind \in DOMAIN EntryPc ->
            /\ stack' = [stack EXCEPT ![t] =
                            Append(base, Frame(EntryPc[cb.kind], cb.obj, cb, not_completed,
                                               NoVal, NoErr, <<>>))]
            /\ UNCHANGED runLog

\* what m_continuations of cell c may hold: a moved-from std::function is
\* left in a valid but unspecified state, empty or still holding its target
Held(c) == IF movedFrom[c] THEN {<<>>, m_continuations[c]} ELSE {m_continuations[c]}

\* lck(m_mtx) at the start of addSynchronousCallback
AddLock(t) ==
    /\ At(t, "add_lock")
    /\ CanLock(t, Top(t).obj)
    /\ m_mtx' = [m_mtx EXCEPT ![Top(t).obj] = t]
    /\ stack' = [stack EXCEPT ![t] = Replaced(t, [Top(t) EXCEPT !.pc = "add_check"])]
    /\ UNCHANGED <<m_state, m_val, m_exception, m_continuations, movedFrom, histVars, outsideCells>>

\* the body of addSynchronousCallback under the lock: either unlock and go
\* on to run func inline, or store func in the chain and return (the lock is
\* released by lck's destructor)
AddCheck(t) ==
    /\ At(t, "add_check")
    /\ LET c == Top(t).obj
           cb == Top(t).cb
       IN /\ m_mtx' = [m_mtx EXCEPT ![c] = NoThread]
          /\ IF AlreadyCompleted(m_state[c])
             THEN /\ stack' = [stack EXCEPT ![t] =
                                  Replaced(t, [Top(t) EXCEPT !.pc = "add_inline"])]
                  /\ regs' = IF cb.kind = "user"
                             THEN [regs EXCEPT ![cb.n].path = "inline"] ELSE regs
                  /\ UNCHANGED <<m_continuations, movedFrom>>
             ELSE /\ \E oldCont \in Held(c) :
                        m_continuations' =
                            [m_continuations EXCEPT ![c] = Compose(oldCont, cb)]
                  /\ movedFrom' = [movedFrom EXCEPT ![c] = FALSE]
                  /\ stack' = [stack EXCEPT ![t] =
                                  Replaced(t, [Top(t) EXCEPT !.pc = "add_ret"])]
                  /\ regs' = IF cb.kind = "user"
                             THEN [regs EXCEPT ![cb.n].path = "chain"] ELSE regs
    /\ UNCHANGED <<m_state, m_val, m_exception, runLog, before, compl, outsideCells>>

\* func() on the registering thread, after lck.unlock()
AddInline(t) ==
    /\ At(t, "add_inline")
    /\ Invoke(t, Top(t).cb, Top(t).obj,
              Replaced(t, [Top(t) EXCEPT !.pc = "add_ret"]))
    /\ UNCHANGED <<cellVars, regs, before, compl, outsideCells>>

\* addSynchronousCallback returns
AddRet(t) ==
    /\ At(t, "add_ret")
    /\ stack' = [stack EXCEPT ![t] = Popped(t)]
    /\ regs' = IF Top(t).cb.kind = "user"
               THEN [regs EXCEPT ![Top(t).cb.n].status = "returned"] ELSE regs
    /\ UNCHANGED <<cellVars, runLog, before, compl, outsideCells>>

\* PromiseFuturePair<T>::set: m_val = std::optional<T>(std::move(val)),
\* written without the lock
SetStore(t) ==
    /\ At(t, "set_store")
    /\ m_val' = [m_val EXCEPT ![Top(t).obj] = Top(t).val]
    /\ stack' = [stack EXCEPT ![t] = Replaced(t, [Top(t) EXCEPT !.pc = "notify_lock"])]
    /\ UNCHANGED <<m_state, m_exception, m_continuations, m_mtx, movedFrom, histVars, outsideCells>>

\* PromiseFuturePair<T>::setException: m_exception = exception, written
\* without the lock
ExcStore(t) ==
    /\ At(t, "exc_store")
    /\ m_exception' = [m_exception EXCEPT ![Top(t).obj] = Top(t).err]
    /\ stack' = [stack EXCEPT ![t] = Replaced(t, [Top(t) EXCEPT !.pc = "notify_lock"])]
    /\ UNCHANGED <<m_state, m_val, m_continuations, m_mtx, movedFrom, histVars, outsideCells>>

\* notify: std::unique_lock<std::mutex> lck(m_mtx)
NotifyLock(t) ==
    /\ At(t, "notify_lock")
    /\ CanLock(t, Top(t).obj)
    /\ m_mtx' = [m_mtx EXCEPT ![Top(t).obj] = t]
    /\ stack' = [stack EXCEPT ![t] = Replaced(t, [Top(t) EXCEPT !.pc = "notify_move"])]
    /\ UNCHANGED <<m_state, m_val, m_exception, m_continuations, movedFrom, histVars, outsideCells>>

\* notify: continuations = std::move(m_continuations); m_cv.notify_all().
\* The chain taken is what m_continuations held, and m_continuations is
\* left moved-from: empty, or still holding the chain taken.
NotifyMove(t) ==
    /\ At(t, "notify_move")
    /\ \E taken \in Held(Top(t).obj) :
        /\ stack' = [stack EXCEPT ![t] =
                        Replaced(t, [Top(t) EXCEPT !.pc = "notify_state",
                                                   !.conts = taken])]
        /\ m_continuations' = [m_continuations EXCEPT ![Top(t).obj] = taken]
    /\ movedFrom' = [movedFrom EXCEPT ![Top(t).obj] = TRUE]
    /\ cell_cv' = [cell_cv EXCEPT ![Top(t).obj] = NotifyAll(@)]
    /\ UNCHANGED <<m_state, m_val, m_exception, m_mtx, histVars, queueVars, queueHist,
                   schedVars, schedHist, coVars, taskVars, fw_mtx, m_futures, m_cond, streamVars,
                   waitLog>>

\* a notify that keeps m_mtx locked while it calls the continuations
NotifySetState_Locked(t) ==
    /\ At(t, "notify_state")
    /\ m_state' = [m_state EXCEPT ![Top(t).obj] = NotifyState(Top(t).st)]
    /\ stack' = [stack EXCEPT ![t] = Replaced(t, [Top(t) EXCEPT !.pc = "notify_run"])]
    /\ UNCHANGED <<m_mtx, m_val, m_exception, m_continuations, movedFrom, histVars,
                   outsideCells>>

\* notify: m_state = state; lck.unlock()
NotifySetState(t) ==
    /\ At(t, "notify_state")
    /\ m_state' = [m_state EXCEPT ![Top(t).obj] = NotifyState(Top(t).st)]
    /\ m_mtx' = [m_mtx EXCEPT ![Top(t).obj] = NoThread]
    /\ stack' = [stack EXCEPT ![t] = Replaced(t, [Top(t) EXCEPT !.pc = "notify_run"])]
    /\ UNCHANGED <<m_val, m_exception, m_continuations, movedFrom, histVars, outsideCells>>

\* notify: continuations(), one callback of the chain per step
NotifyRun(t) ==
    /\ At(t, "notify_run")
    /\ Top(t).conts # <<>>
    /\ Invoke(t, Head(Top(t).conts), Top(t).obj,
              Replaced(t, [Top(t) EXCEPT !.conts = Tail(@)]))
    /\ UNCHANGED <<cellVars, regs, before, compl, outsideCells>>

\* notify, and with it set / setException, returns
NotifyRet(t) ==
    /\ At(t, "notify_run")
    /\ Top(t).conts = <<>>
    /\ stack' = [stack EXCEPT ![t] = Popped(t)]
    /\ compl' = [i \in DOMAIN compl |->
                    IF compl[i].thread = t /\ compl[i].cell = Top(t).obj
                    THEN [compl[i] EXCEPT !.done = TRUE] ELSE compl[i]]
    /\ UNCHANGED <<cellVars, runLog, regs, before, outsideCells>>

CellStep(t) ==
    \/ AddLock(t) \/ AddCheck(t) \/ AddInline(t) \/ AddRet(t)
    \/ SetStore(t) \/ ExcStore(t)
    \/ NotifyLock(t) \/ NotifyMove(t) \/ NotifySetState(t)
    \/ NotifyRun(t) \/ NotifyRet(t)

(***************************************************************************)
(* Clients of one cell: threads that register callbacks on cell F and      *)
(* complete it, in any interleaving.                                       *)
(***************************************************************************)
CbIds == 1 .. MaxCbs
NextCb == IF \E n \in CbIds : regs[n].status = "none"
          THEN CHOOSE n \in CbIds : /\ regs[n].status = "none"
                                    /\ \A k \in CbIds : regs[k].status = "none" => n <= k
          ELSE 0

\* a thread calls F.addSynchronousCallback(cb) with a fresh callback
CallAdd(t) ==
    /\ t \in Registrars
    /\ Idle(t)
    /\ NextCb # 0
    /\ regs' = [regs EXCEPT ![NextCb] = [status |-> "calling", thread |-> t, path |-> "-",
                                             atCall |-> m_state["F"]]]
    /\ before' = before \cup {<<a, NextCb>> : a \in {k \in CbIds : regs[k].status = "returned"}}
    /\ stack' = [stack EXCEPT ![t] =
                    <<Frame("add_lock", "F", UserCb(NextCb), not_completed, NoVal, NoErr, <<>>)>>]
    /\ UNCHANGED <<cellVars, runLog, compl, outsideCells>>

\* a thread calls Promise::set(v) on F, with v one of vals
CallSet(t, limit, vals) ==
    /\ t \in Completers
    /\ Idle(t)
    /\ Len(compl) < limit
    /\ \E v \in vals :
        /\ compl' = Append(compl, [thread |-> t, cell |-> "F", st |-> completed_normally,
                                   val |-> v, err |-> NoErr, done |-> FALSE])
        /\ stack' = [stack EXCEPT ![t] =
                        <<Frame("set_store", "F", NoCb, completed_normally, v, NoErr, <<>>)>>]
    /\ UNCHANGED <<cellVars, runLog, regs, before, outsideCells>>

\* a thread calls Promise::setException(e) on F, with e one of errs
CallSetException(t, limit, errs) ==
    /\ t \in Completers
    /\ Idle(t)
    /\ Len(compl) < limit
    /\ \E e \in errs :
        /\ compl' = Append(compl, [thread |-> t, cell |-> "F", st |-> exception,
                                   val |-> NoVal, err |-> e, done |-> FALSE])
        /\ stack' = [stack EXCEPT ![t] =
                        <<Frame("exc_store", "F", NoCb, exception, NoVal, e, <<>>)>>]
    /\ UNCHANGED <<cellVars, runLog, regs, before, outsideCells>>

(***************************************************************************)
(* SingleProducerSingleConsumerQueue<Item,Eof>.                            *)
(***************************************************************************)
\* a queue that takes one element more than its size
isFull_OneMore(q) == Len(q) > m_queueSize

\* enqueue / setOnSlotAvailableOnceCallback: m_queue.size() >= m_queueSize
isFull(q) == Len(q) >= m_queueSize

\* a push at the front of the queue
push_AtFront(q, v) == <<v>> \o q

\* enqueue: m_queue.push(std::move(v))
push(q, v) == Append(q, v)

\* a dequeue that removes whatever is at the front
popsFront_Always(v) == TRUE

\* dequeue: only an Item is removed, if (m_queue.front().isItem()) ... pop()
popsFront(v) == isItem(v)

\* StreamValue::makeFrom: the value dequeue returns, rebuilt from the
\* alternative the source holds (an item is moved out, a marker is copied)
makeFrom(src) ==
    CASE src.tag = "item" -> makeItem(src.v)
      [] src.tag = "eof"  -> makeEof(src.v)
      [] src.tag = "exc"  -> makeException(src.e)
      [] OTHER            -> NoEl

\* std::unique_lock<std::mutex> lck(m_mutex): the lock is free
CanLockQueue(t) == m_mutex = NoThread

\* m_queue.push(std::move(v)); onValueEnqueued(lck), with the lock held; the
\* lock is released by lck.unlock() before the callback, or by lck's
\* destructor when enqueue returns
PushAndSignal(t) ==
    /\ m_queue' = push(m_queue, Top(t).el)
    /\ enqLog' = Append(enqLog, [el |-> Top(t).el, thread |-> t,
                                 popsAtFull |-> prod.popsAtFull, popsAtPush |-> pops])
    /\ m_mutex' = NoThread
    /\ IF m_valueAvailableCallback # NoCb
       THEN /\ m_valueAvailableCallback' = NoCb
            /\ stack' = [stack EXCEPT ![t] =
                            Replaced(t, [Top(t) EXCEPT !.pc = "enq_call",
                                                       !.cb = m_valueAvailableCallback])]
       ELSE /\ UNCHANGED m_valueAvailableCallback
            /\ stack' = [stack EXCEPT ![t] = Replaced(t, [Top(t) EXCEPT !.pc = "enq_ret"])]

\* enqueue: lck(m_mutex)
EnqLock(t) ==
    /\ At(t, "enq_lock")
    /\ CanLockQueue(t)
    /\ m_mutex' = t
    /\ stack' = [stack EXCEPT ![t] = Replaced(t, [Top(t) EXCEPT !.pc = "enq_check"])]
    /\ UNCHANGED <<m_queueSize, m_queue, m_valueAvailableCallback,
                   m_slotAvailableCallback, done, queueHist, runLog, outsideQueue>>

\* enqueue under the lock: an Item on a full queue installs the wake-up
\* callback and waits (cv.wait releases the lock); anything else is pushed
EnqCheck(t) ==
    /\ At(t, "enq_check")
    /\ IF isFull(m_queue) /\ isItem(Top(t).el)
       THEN /\ m_slotAvailableCallback' = WakeSlotCb(t)
            /\ done' = [done EXCEPT ![t] = FALSE]
            /\ m_mutex' = NoThread
            /\ prod' = [prod EXCEPT !.popsAtFull = pops]
            /\ stack' = [stack EXCEPT ![t] = Replaced(t, [Top(t) EXCEPT !.pc = "enq_wait"])]
            /\ UNCHANGED <<m_queue, m_valueAvailableCallback, enqLog>>
       ELSE /\ PushAndSignal(t)
            /\ UNCHANGED <<m_slotAvailableCallback, done, prod>>
    /\ UNCHANGED <<m_queueSize, deqLog, pops, cons, runLog, outsideQueue>>

\* a thread woken in cv.wait(lck, done), by notify_all or spuriously, locks
\* m_mutex again and tests done: when set, the wait of enqueue is over and
\* the element is pushed; otherwise the thread is about to wait again
EnqWake(t) ==
    /\ At(t, "enq_woken")
    /\ CanLockQueue(t)
    /\ IF done[t]
       THEN PushAndSignal(t)
       ELSE /\ m_mutex' = t
            /\ stack' = [stack EXCEPT ![t] = Replaced(t, [Top(t) EXCEPT !.pc = "enq_again"])]
            /\ UNCHANGED <<m_queue, enqLog, m_valueAvailableCallback>>
    /\ UNCHANGED <<m_queueSize, m_slotAvailableCallback, done, deqLog, pops, prod,
                   cons, runLog, outsideQueue>>

\* cv.wait(lck) after done was found not set: the lock is released and the
\* thread blocks, in one step
WaitAgain(t) ==
    /\ \/ At(t, "enq_again")
       \/ At(t, "deq_again")
    /\ m_mutex' = NoThread
    /\ stack' = [stack EXCEPT ![t] =
                    Replaced(t, [Top(t) EXCEPT !.pc = IF At(t, "enq_again")
                                                     THEN "enq_wait" ELSE "deq_wait"])]
    /\ UNCHANGED <<m_queueSize, m_queue, m_valueAvailableCallback,
                   m_slotAvailableCallback, done, queueHist, runLog, outsideQueue>>

\* a thread blocked in cv.wait(lck) wakes without a notification
QueueSpurious(t) ==
    /\ \/ At(t, "enq_wait")
       \/ At(t, "deq_wait")
    /\ stack' = [stack EXCEPT ![t] =
                    Replaced(t, [Top(t) EXCEPT !.pc = IF At(t, "enq_wait")
                                                     THEN "enq_woken" ELSE "deq_woken"])]
    /\ UNCHANGED <<queueVars, queueHist, runLog, outsideQueue>>

\* onValueEnqueued: callback(), after lck.unlock()
EnqCall(t) ==
    /\ At(t, "enq_call")
    /\ Invoke(t, Top(t).cb, "q", Replaced(t, [Top(t) EXCEPT !.pc = "enq_ret"]))
    /\ UNCHANGED <<queueVars, queueHist, outsideQueue>>

\* enqueue returns: the producer's call is over
EnqRet(t) ==
    /\ At(t, "enq_ret")
    /\ stack' = [stack EXCEPT ![t] = Popped(t)]
    /\ prod' = [prod EXCEPT !.busy = FALSE, !.popsAtFull = -1,
                            !.next = IF isItem(Top(t).el) THEN @ + 1 ELSE @]
    /\ UNCHANGED <<queueVars, enqLog, deqLog, pops, cons, runLog, outsideQueue>>

\* the rest of dequeue with the lock held and the queue not empty: an Item
\* is copied, popped and onValueDequeued(lck) is called; a marker is copied
\* and stays where it is
TakeFront(t) ==
    LET front == Head(m_queue) IN
    /\ m_mutex' = NoThread
    /\ IF popsFront(front)
       THEN /\ m_queue' = Tail(m_queue)
            /\ pops' = pops + 1
            /\ IF m_slotAvailableCallback # NoCb
               THEN /\ m_slotAvailableCallback' = NoCb
                    /\ stack' = [stack EXCEPT ![t] =
                                    Replaced(t, [Top(t) EXCEPT !.pc = "deq_call",
                                                               !.el = makeFrom(front),
                                                               !.cb = m_slotAvailableCallback])]
               ELSE /\ UNCHANGED m_slotAvailableCallback
                    /\ stack' = [stack EXCEPT ![t] =
                                    Replaced(t, [Top(t) EXCEPT !.pc = "deq_ret",
                                                               !.el = makeFrom(front)])]
       ELSE /\ stack' = [stack EXCEPT ![t] =
                            Replaced(t, [Top(t) EXCEPT !.pc = "deq_ret",
                                                       !.el = makeFrom(front)])]
            /\ UNCHANGED <<m_queue, pops, m_slotAvailableCallback>>

\* dequeue: lck(m_mutex)
DeqLock(t) ==
    /\ At(t, "deq_lock")
    /\ CanLockQueue(t)
    /\ m_mutex' = t
    /\ stack' = [stack EXCEPT ![t] = Replaced(t, [Top(t) EXCEPT !.pc = "deq_check"])]
    /\ UNCHANGED <<m_queueSize, m_queue, m_valueAvailableCallback,
                   m_slotAvailableCallback, done, queueHist, runLog, outsideQueue>>

\* dequeue under the lock: on an empty queue waitForValueAvailable installs
\* the wake-up callback and waits (cv.wait releases the lock); otherwise the
\* front is taken
DeqCheck(t) ==
    /\ At(t, "deq_check")
    /\ IF m_queue = <<>>
       THEN /\ m_valueAvailableCallback' = WakeValueCb(t)
            /\ done' = [done EXCEPT ![t] = FALSE]
            /\ m_mutex' = NoThread
            /\ stack' = [stack EXCEPT ![t] = Replaced(t, [Top(t) EXCEPT !.pc = "deq_wait"])]
            /\ UNCHANGED <<m_queue, m_slotAvailableCallback, pops>>
       ELSE /\ TakeFront(t)
            /\ UNCHANGED <<m_valueAvailableCallback, done>>
    /\ UNCHANGED <<m_queueSize, enqLog, deqLog, prod, cons, runLog, outsideQueue>>

\* waitForValueAvailable: a thread woken in cv.wait(lck, done) locks m_mutex
\* again and tests done: when set, the wait is over and the front is taken;
\* otherwise the thread is about to wait again
DeqWake(t) ==
    /\ At(t, "deq_woken")
    /\ CanLockQueue(t)
    /\ IF done[t]
       THEN TakeFront(t)
       ELSE /\ m_mutex' = t
            /\ stack' = [stack EXCEPT ![t] = Replaced(t, [Top(t) EXCEPT !.pc = "deq_again"])]
            /\ UNCHANGED <<m_queue, pops, m_slotAvailableCallback>>
    /\ UNCHANGED <<m_queueSize, m_valueAvailableCallback, done, enqLog, deqLog, prod,
                   cons, runLog, outsideQueue>>

\* onValueDequeued: callback(), after lck.unlock()
DeqCall(t) ==
    /\ At(t, "deq_call")
    /\ Invoke(t, Top(t).cb, "q", Replaced(t, [Top(t) EXCEPT !.pc = "deq_ret"]))
    /\ UNCHANGED <<queueVars, queueHist, outsideQueue>>

\* dequeue returns its element: the consumer's call is over
DeqRet(t) ==
    /\ At(t, "deq_ret")
    /\ stack' = [stack EXCEPT ![t] = Popped(t)]
    /\ deqLog' = Append(deqLog, Top(t).el)
    /\ cons' = [cons EXCEPT !.busy = FALSE]
    /\ UNCHANGED <<queueVars, enqLog, pops, prod, runLog, outsideQueue>>

\* cv.notify_all() of the wake-up callback run by thread t for the waiter w:
\* w, if it is blocked in cv.wait(lck), is woken; the callback returns
Notified(t, w) ==
    [stack EXCEPT ![t] = Popped(t),
                  ![w] = IF At(w, "enq_wait")
                         THEN Replaced(w, [Top(w) EXCEPT !.pc = "enq_woken"])
                         ELSE IF At(w, "deq_wait")
                         THEN Replaced(w, [Top(w) EXCEPT !.pc = "deq_woken"])
                         ELSE @]

\* the wake-up callback of enqueue: lckx(mtx); done = true; cv.notify_all(),
\* with mtx a mutex local to enqueue that no other code locks
WakeSlot(t) ==
    /\ At(t, "wake_slot")
    /\ done' = [done EXCEPT ![Top(t).obj] = TRUE]
    /\ stack' = Notified(t, Top(t).obj)
    /\ UNCHANGED <<m_queueSize, m_mutex, m_queue, m_valueAvailableCallback,
                   m_slotAvailableCallback, queueHist, runLog, outsideQueue>>

\* the wake-up callback of waitForValueAvailable: lckx(m_mutex); done = true;
\* cv.notify_all(); the lock is released when the callback returns
WakeValue(t) ==
    /\ At(t, "wake_value")
    /\ CanLockQueue(t)
    /\ done' = [done EXCEPT ![Top(t).obj] = TRUE]
    /\ stack' = Notified(t, Top(t).obj)
    /\ UNCHANGED <<m_queueSize, m_mutex, m_queue, m_valueAvailableCallback,
                   m_slotAvailableCallback, queueHist, runLog, outsideQueue>>

\* setOnValueAvailableOnceCallback: lck(m_mutex)
SovLock(t) ==
    /\ At(t, "sov_lock")
    /\ CanLockQueue(t)
    /\ m_mutex' = t
    /\ stack' = [stack EXCEPT ![t] = Replaced(t, [Top(t) EXCEPT !.pc = "sov_check"])]
    /\ UNCHANGED <<m_queueSize, m_queue, m_valueAvailableCallback,
                   m_slotAvailableCallback, done, queueHist, runLog, outsideQueue>>

\* setOnValueAvailableOnceCallback under the lock: the callback is stored if
\* the queue is empty; otherwise the lock is released to call it
SovCheck(t) ==
    /\ At(t, "sov_check")
    /\ m_mutex' = NoThread
    /\ IF m_queue = <<>>
       THEN /\ m_valueAvailableCallback' = Top(t).cb
            /\ stack' = [stack EXCEPT ![t] = Replaced(t, [Top(t) EXCEPT !.pc = "sov_ret"])]
       ELSE /\ UNCHANGED m_valueAvailableCallback
            /\ stack' = [stack EXCEPT ![t] = Replaced(t, [Top(t) EXCEPT !.pc = "sov_call"])]
    /\ UNCHANGED <<m_queueSize, m_queue, m_slotAvailableCallback, done, queueHist,
                   runLog, outsideQueue>>

\* setOnValueAvailableOnceCallback: callback(), after lck.unlock()
SovCall(t) ==
    /\ At(t, "sov_call")
    /\ Invoke(t, Top(t).cb, "q", Replaced(t, [Top(t) EXCEPT !.pc = "sov_ret"]))
    /\ UNCHANGED <<queueVars, queueHist, outsideQueue>>

\* setOnValueAvailableOnceCallback returns
SovRet(t) ==
    /\ At(t, "sov_ret")
    /\ stack' = [stack EXCEPT ![t] = Popped(t)]
    /\ UNCHANGED <<queueVars, queueHist, runLog, outsideQueue>>

\* setOnSlotAvailableOnceCallback: lck(m_mutex)
SosLock(t) ==
    /\ At(t, "sos_lock")
    /\ CanLockQueue(t)
    /\ m_mutex' = t
    /\ stack' = [stack EXCEPT ![t] = Replaced(t, [Top(t) EXCEPT !.pc = "sos_check"])]
    /\ UNCHANGED <<m_queueSize, m_queue, m_valueAvailableCallback,
                   m_slotAvailableCallback, done, queueHist, runLog, outsideQueue>>

\* setOnSlotAvailableOnceCallback under the lock: the callback is stored if
\* the queue is full; otherwise the lock is released to call it
SosCheck(t) ==
    /\ At(t, "sos_check")
    /\ m_mutex' = NoThread
    /\ IF isFull(m_queue)
       THEN /\ m_slotAvailableCallback' = Top(t).cb
            /\ prod' = [prod EXCEPT !.popsAtFull = pops]
            /\ stack' = [stack EXCEPT ![t] = Replaced(t, [Top(t) EXCEPT !.pc = "sos_ret"])]
       ELSE /\ UNCHANGED <<m_slotAvailableCallback, prod>>
            /\ stack' = [stack EXCEPT ![t] = Replaced(t, [Top(t) EXCEPT !.pc = "sos_call"])]
    /\ UNCHANGED <<m_queueSize, m_queue, m_valueAvailableCallback, done, enqLog, deqLog,
                   pops, cons, runLog, outsideQueue>>

\* setOnSlotAvailableOnceCallback: callback(), after lck.unlock()
SosCall(t) ==
    /\ At(t, "sos_call")
    /\ Invoke(t, Top(t).cb, "q", Replaced(t, [Top(t) EXCEPT !.pc = "sos_ret"]))
    /\ UNCHANGED <<queueVars, queueHist, outsideQueue>>

\* setOnSlotAvailableOnceCallback returns
SosRet(t) ==
    /\ At(t, "sos_ret")
    /\ stack' = [stack EXCEPT ![t] = Popped(t)]
    /\ UNCHANGED <<queueVars, queueHist, runLog, outsideQueue>>

QueueStep(t) ==
    \/ EnqLock(t) \/ EnqCheck(t) \/ EnqWake(t) \/ EnqCall(t) \/ EnqRet(t)
    \/ DeqLock(t) \/ DeqCheck(t) \/ DeqWake(t) \/ DeqCall(t) \/ DeqRet(t)
    \/ WakeSlot(t) \/ WakeValue(t) \/ WaitAgain(t)
    \/ SovLock(t) \/ SovCheck(t) \/ SovCall(t) \/ SovRet(t)
    \/ SosLock(t) \/ SosCheck(t) \/ SosCall(t) \/ SosRet(t)

(***************************************************************************)
(* Clients of the queue: one producer and one consumer, each making one    *)
(* call at a time. The producer enqueues the Items 1, 2, ... and then at   *)
(* most one Eof or exception, after which it enqueues nothing.             *)
(***************************************************************************)
ProducerThread == "t1"
ConsumerThread == "t2"

\* the producer calls q.enqueue(v): its next Item, an Eof or an exception
ProdEnqueue(t) ==
    /\ t = ProducerThread
    /\ Idle(t)
    /\ ~prod.busy /\ ~prod.closed
    /\ \E v \in {makeItem(n) : n \in {prod.next} \cap (1 .. MaxItems)}
               \cup {makeEof(x) : x \in EofValues}
               \cup {makeException(e) : e \in Errors} :
        /\ stack' = [stack EXCEPT ![t] = <<QueueFrame("enq_lock", NoCb, v)>>]
        /\ prod' = [prod EXCEPT !.busy = TRUE, !.closed = ~isItem(v)]
    /\ UNCHANGED <<queueVars, enqLog, deqLog, pops, cons, runLog, outsideQueue>>

\* the producer calls q.setOnSlotAvailableOnceCallback with a callback that
\* enqueues its next Item
ProdSetOnSlotAvailable(t) ==
    /\ t = ProducerThread
    /\ Idle(t)
    /\ ~prod.busy /\ ~prod.closed
    /\ prod.next <= MaxItems
    /\ stack' = [stack EXCEPT ![t] = <<QueueFrame("sos_lock", EnqueueCb(prod.next), NoEl)>>]
    /\ prod' = [prod EXCEPT !.busy = TRUE]
    /\ UNCHANGED <<queueVars, enqLog, deqLog, pops, cons, runLog, outsideQueue>>

\* the consumer calls q.dequeue()
ConsDequeue(t) ==
    /\ t = ConsumerThread
    /\ Idle(t)
    /\ ~cons.busy
    /\ cons.calls < MaxDeqs
    /\ stack' = [stack EXCEPT ![t] = <<QueueFrame("deq_lock", NoCb, NoEl)>>]
    /\ cons' = [cons EXCEPT !.busy = TRUE, !.calls = @ + 1]
    /\ UNCHANGED <<queueVars, enqLog, deqLog, pops, prod, runLog, outsideQueue>>

\* the consumer calls q.setOnValueAvailableOnceCallback with a callback that
\* dequeues
ConsSetOnValueAvailable(t) ==
    /\ t = ConsumerThread
    /\ Idle(t)
    /\ ~cons.busy
    /\ cons.calls < MaxDeqs
    /\ stack' = [stack EXCEPT ![t] = <<QueueFrame("sov_lock", DequeueCb, NoEl)>>]
    /\ cons' = [cons EXCEPT !.busy = TRUE, !.calls = @ + 1]
    /\ UNCHANGED <<queueVars, enqLog, deqLog, pops, prod, runLog, outsideQueue>>

\* SingleProducerSingleConsumerQueue(size_t queueSize = 1), with queueSize
\* one of sizes
InitQueue(sizes) ==
    /\ m_queueSize \in sizes
    /\ m_mutex = NoThread
    /\ m_queue = <<>>
    /\ m_valueAvailableCallback = NoCb
    /\ m_slotAvailableCallback = NoCb
    /\ done = [t \in Threads |-> FALSE]
    /\ enqLog = <<>>
    /\ deqLog = <<>>
    /\ pops = 0
    /\ prod = [next |-> 1, closed |-> FALSE, busy |-> FALSE, popsAtFull |-> -1]
    /\ cons = [calls |-> 0, busy |-> FALSE]

(***************************************************************************)
(* Executors: ThreadPool ("pool") and OneThreadScheduler ("ots").          *)
(***************************************************************************)
\* ThreadPool::enqueue / OneThreadScheduler::enqueue: lck(m_mtx)
EnqueueLock(t) ==
    /\ At(t, "enqueue_lock")
    /\ sched_mtx[Top(t).obj] = NoThread
    /\ sched_mtx' = [sched_mtx EXCEPT ![Top(t).obj] = t]
    /\ stack' = [stack EXCEPT ![t] = Replaced(t, [Top(t) EXCEPT !.pc = "enqueue_push"])]
    /\ UNCHANGED <<m_tasks, m_runnableHandlers, m_finishedWaiters, m_isEnding, m_cv,
                   schedHist, runLog, coVars, outsideSched>>

\* m_cv.notify_one(): one of the threads blocked in m_cv.wait, if there is
\* one, is woken
NotifyOne(s) ==
    \E w \in (IF m_cv[s] = {} THEN {NoThread} ELSE m_cv[s]) :
        m_cv' = [m_cv EXCEPT ![s] = @ \ {w}]

\* enqueue: m_tasks.push(std::move(func)); m_cv.notify_one(); return
EnqueuePush(t) ==
    /\ At(t, "enqueue_push")
    /\ LET s == Top(t).obj IN
        /\ m_tasks' = [m_tasks EXCEPT ![s] = Append(@, Top(t).cb)]
        /\ taskLog' = Append(taskLog, [task |-> Top(t).cb, on |-> s, thread |-> t])
        /\ NotifyOne(s)
        /\ sched_mtx' = [sched_mtx EXCEPT ![s] = NoThread]
    /\ stack' = [stack EXCEPT ![t] = Popped(t)]
    /\ UNCHANGED <<m_runnableHandlers, m_finishedWaiters, m_isEnding, fLog, thenCalls,
                   runLog, coVars, outsideSched>>

\* ThreadPool::threadFunc: lck(m_mtx) at its start, lck.lock() after a task
\* or a coroutine has run
TfLock(t) ==
    /\ At(t, "tf_lock")
    /\ sched_mtx[Top(t).obj] = NoThread
    /\ sched_mtx' = [sched_mtx EXCEPT ![Top(t).obj] = t]
    /\ stack' = [stack EXCEPT ![t] = Replaced(t, [Top(t) EXCEPT !.pc = "tf_loop"])]
    /\ UNCHANGED <<m_tasks, m_runnableHandlers, m_finishedWaiters, m_isEnding, m_cv,
                   schedHist, runLog, coVars, outsideSched>>

\* a scheduler that prefers a fresh task to a runnable coroutine
TakeWork_TasksFirst(t, s, runPc) ==
    /\ sched_mtx' = [sched_mtx EXCEPT ![s] = NoThread]
    /\ IF m_tasks[s] # <<>>
       THEN /\ m_tasks' = [m_tasks EXCEPT ![s] = Tail(@)]
            /\ stack' = [stack EXCEPT ![t] =
                            Replaced(t, [Top(t) EXCEPT !.pc = runPc, !.cb = Head(m_tasks[s])])]
            /\ UNCHANGED m_runnableHandlers
       ELSE /\ m_runnableHandlers' = [m_runnableHandlers EXCEPT ![s] = Tail(@)]
            /\ stack' = [stack EXCEPT ![t] =
                            Replaced(t, [Top(t) EXCEPT !.pc = runPc,
                                                       !.cb = Head(m_runnableHandlers[s])])]
            /\ UNCHANGED m_tasks

\* with the lock held, the first runnable coroutine handle, or else the
\* first task, is popped and the lock is released to run it at pc runPc
TakeWork(t, s, runPc) ==
    /\ sched_mtx' = [sched_mtx EXCEPT ![s] = NoThread]
    /\ IF m_runnableHandlers[s] # <<>>
       THEN /\ m_runnableHandlers' = [m_runnableHandlers EXCEPT ![s] = Tail(@)]
            /\ stack' = [stack EXCEPT ![t] =
                            Replaced(t, [Top(t) EXCEPT !.pc = runPc,
                                                       !.cb = Head(m_runnableHandlers[s])])]
            /\ UNCHANGED m_tasks
       ELSE /\ m_tasks' = [m_tasks EXCEPT ![s] = Tail(@)]
            /\ stack' = [stack EXCEPT ![t] =
                            Replaced(t, [Top(t) EXCEPT !.pc = runPc, !.cb = Head(m_tasks[s])])]
            /\ UNCHANGED m_runnableHandlers
HasWork(s) == m_runnableHandlers[s] # <<>> \/ m_tasks[s] # <<>>

\* a threadFunc that returns as soon as the pool is ending, whatever is left
\* in its queues
TfLoop_EndingFirst(t) ==
    /\ At(t, "tf_loop")
    /\ LET s == Top(t).obj IN
        IF m_isEnding[s]
        THEN /\ sched_mtx' = [sched_mtx EXCEPT ![s] = NoThread]
             /\ stack' = [stack EXCEPT ![t] = Popped(t)]
             /\ UNCHANGED <<m_tasks, m_runnableHandlers, m_cv>>
        ELSE IF HasWork(s)
        THEN /\ TakeWork(t, s, "tf_run")
             /\ UNCHANGED m_cv
        ELSE /\ sched_mtx' = [sched_mtx EXCEPT ![s] = NoThread]
             /\ UNCHANGED <<m_tasks, m_runnableHandlers>>
             /\ m_cv' = [m_cv EXCEPT ![s] = @ \cup {t}]
             /\ stack' = [stack EXCEPT ![t] =
                             Replaced(t, [Top(t) EXCEPT !.pc = "tf_wait"])]
    /\ UNCHANGED <<m_finishedWaiters, m_isEnding, schedHist, runLog, coVars, outsideSched>>

\* one turn of the loop of threadFunc with the lock held: run a coroutine,
\* else run a task, else return if the pool is ending, else m_cv.wait(lck)
TfLoop(t) ==
    /\ At(t, "tf_loop")
    /\ LET s == Top(t).obj IN
        IF HasWork(s)
        THEN /\ TakeWork(t, s, "tf_run")
             /\ UNCHANGED m_cv
        ELSE /\ sched_mtx' = [sched_mtx EXCEPT ![s] = NoThread]
             /\ UNCHANGED <<m_tasks, m_runnableHandlers>>
             /\ IF m_isEnding[s]
                THEN /\ stack' = [stack EXCEPT ![t] = Popped(t)]
                     /\ UNCHANGED m_cv
                ELSE /\ m_cv' = [m_cv EXCEPT ![s] = @ \cup {t}]
                     /\ stack' = [stack EXCEPT ![t] =
                                     Replaced(t, [Top(t) EXCEPT !.pc = "tf_wait"])]
    /\ UNCHANGED <<m_finishedWaiters, m_isEnding, schedHist, runLog, coVars, outsideSched>>

\* threadFunc: m_cv.wait(lck) returns, with the lock held again
TfWake(t) ==
    /\ At(t, "tf_wait")
    /\ t \notin m_cv[Top(t).obj]
    /\ sched_mtx[Top(t).obj] = NoThread
    /\ sched_mtx' = [sched_mtx EXCEPT ![Top(t).obj] = t]
    /\ stack' = [stack EXCEPT ![t] = Replaced(t, [Top(t) EXCEPT !.pc = "tf_loop"])]
    /\ UNCHANGED <<m_tasks, m_runnableHandlers, m_finishedWaiters, m_isEnding, m_cv,
                   schedHist, runLog, coVars, outsideSched>>

\* threadFunc: func() or h.resume(), after lck.unlock()
TfRun(t) ==
    /\ At(t, "tf_run")
    /\ Invoke(t, Top(t).cb, Top(t).obj,
              Replaced(t, [Top(t) EXCEPT !.pc = "tf_lock", !.cb = NoCb]))
    /\ UNCHANGED <<schedVars, schedHist, coVars, outsideSched>>

PoolStep(t) ==
    \/ EnqueueLock(t) \/ EnqueuePush(t)
    \/ TfLock(t) \/ TfLoop(t) \/ TfWake(t) \/ TfRun(t)

(***************************************************************************)
(* Future<T>::then(pExecutor, func): ContinuationTaskFromOneFuture.        *)
(***************************************************************************)
\* ContinuationTaskFromOneFuture::m_future of the task whose cell is r
m_future(r) == "F"

\* a test that takes a failed antecedent for a completed one
isCompletedNormally_OrFailed(st) == st # not_completed

\* PromiseFuturePairBase::isCompletedNormally
isCompletedNormally(st) == st = completed_normally

\* onFutureCompleted(pThis): a normally completed antecedent has the task
\* that runs func enqueued on the executor; otherwise the antecedent's
\* exception is set on the task's own cell (getException waits for the
\* antecedent to be completed)
OnFutureCompleted(t) ==
    /\ At(t, "ofc_check")
    /\ LET r == Top(t).obj
           cb == Top(t).cb
       IN IF isCompletedNormally(m_state[m_future(r)])
          THEN stack' = [stack EXCEPT ![t] =
                            Replaced(t, Frame("enqueue_lock", cb.sch, ThenTask(r),
                                              not_completed, NoVal, NoErr, <<>>))]
          ELSE /\ m_state[m_future(r)] # not_completed
               /\ stack' = [stack EXCEPT ![t] =
                               Replaced(t, Frame("exc_store", r, NoCb, exception, NoVal,
                                                 m_exception[m_future(r)], <<>>))]
    /\ UNCHANGED <<schedVars, schedHist, runLog, coVars, outsideSched>>

\* the results func can have: a value, or an exception thrown
FuncOutcomes ==
    {[st |-> completed_normally, val |-> v, err |-> NoErr] : v \in Values}
        \cup {[st |-> exception, val |-> NoVal, err |-> e] : e \in Errors}

\* the enqueued task: computeAndSet(std::move(m_func), m_future.get()). get()
\* waits for the antecedent and rethrows its exception; func's result is
\* set, and whatever is thrown inside the try is set as the exception
ComputeAndSet(t) ==
    /\ At(t, "cas_call")
    /\ LET r == Top(t).obj
           f == m_future(r)
       IN /\ m_state[f] # not_completed
          /\ IF m_state[f] = completed_normally
             THEN \E out \in FuncOutcomes :
                    /\ fLog' = Append(fLog, [task |-> r, thread |-> t, arg |-> m_val[f]])
                    /\ stack' = [stack EXCEPT ![t] =
                                    Append(Replaced(t, [Top(t) EXCEPT !.pc = "task_ret"]),
                                           Frame(IF out.st = exception THEN "exc_store"
                                                                       ELSE "set_store",
                                                 r, NoCb, out.st, out.val, out.err, <<>>))]
             ELSE /\ UNCHANGED fLog
                  /\ stack' = [stack EXCEPT ![t] =
                                  Append(Replaced(t, [Top(t) EXCEPT !.pc = "task_ret"]),
                                         Frame("exc_store", r, NoCb, exception, NoVal,
                                               m_exception[f], <<>>))]
    /\ UNCHANGED <<schedVars, taskLog, thenCalls, runLog, coVars, outsideSched>>

\* the enqueued task: m_future.reset(), and the task returns
TaskRet(t) ==
    /\ At(t, "task_ret")
    /\ stack' = [stack EXCEPT ![t] = Popped(t)]
    /\ UNCHANGED <<schedVars, schedHist, runLog, coVars, outsideSched>>

\* then returns Future<R>(pRet)
ThenRet(t) ==
    /\ At(t, "then_ret")
    /\ stack' = [stack EXCEPT ![t] = Popped(t)]
    /\ thenCalls' = [thenCalls EXCEPT ![Top(t).obj] = "returned"]
    /\ UNCHANGED <<schedVars, fLog, taskLog, runLog, coVars, outsideSched>>

ThenStep(t) ==
    \/ OnFutureCompleted(t) \/ ComputeAndSet(t) \/ TaskRet(t) \/ ThenRet(t)

\* a thread calls F.then(pool, func): the task's cell is R
CallThen(t) ==
    /\ t = "t1"
    /\ Idle(t)
    /\ thenCalls["R"] = "none"
    /\ thenCalls' = [thenCalls EXCEPT !["R"] = "calling"]
    /\ stack' = [stack EXCEPT ![t] =
                    <<Frame("then_ret", "R", NoCb, not_completed, NoVal, NoErr, <<>>),
                      Frame("add_lock", "F", ThenCb("R", "pool"), not_completed, NoVal,
                            NoErr, <<>>)>>]
    /\ UNCHANGED <<schedVars, fLog, taskLog, runLog, coVars, outsideSched>>

InitSched ==
    /\ sched_mtx = [s \in Scheds |-> NoThread]
    /\ m_tasks = [s \in Scheds |-> <<>>]
    /\ m_runnableHandlers = [s \in Scheds |-> <<>>]
    /\ m_finishedWaiters = [s \in Scheds |-> {}]
    /\ m_isEnding = [s \in Scheds |-> FALSE]
    /\ m_cv = [s \in Scheds |-> {}]
    /\ fLog = <<>>
    /\ taskLog = <<>>
    /\ thenCalls = [c \in Cells |-> "none"]

(***************************************************************************)
(* OneThreadScheduler, and the operations of CoroutineScheduler shared     *)
(* with ThreadPool.                                                        *)
(***************************************************************************)
\* OneThreadScheduler::m_threadId: the bound thread
m_threadId == "t1"

\* a scheduler that never asks for a switch of thread
initSwitchThread_Never(t, s) == FALSE

\* ThreadPool::initSwitchThread: return false;
\* OneThreadScheduler::initSwitchThread: this_thread::get_id() != m_threadId
initSwitchThread(t, s) == IF s = "ots" THEN t # m_threadId ELSE FALSE

\* OneThreadScheduler::waitFor runs pending work only if
\* this_thread::get_id() == m_threadId; ThreadPool::waitFor always does
RunsWorkInWaitFor(t, s) == IF s = "ots" THEN t = m_threadId ELSE TRUE

\* markRunnable: lck(m_mtx)
MarkRunnableLock(t) ==
    /\ At(t, "mr_lock")
    /\ sched_mtx[Top(t).obj] = NoThread
    /\ sched_mtx' = [sched_mtx EXCEPT ![Top(t).obj] = t]
    /\ stack' = [stack EXCEPT ![t] = Replaced(t, [Top(t) EXCEPT !.pc = "mr_push"])]
    /\ UNCHANGED <<m_tasks, m_runnableHandlers, m_finishedWaiters, m_isEnding, m_cv,
                   schedHist, runLog, coVars, outsideSched>>

\* markRunnable: m_runnableHandlers.push(h); m_cv.notify_one(); return
MarkRunnablePush(t) ==
    /\ At(t, "mr_push")
    /\ LET s == Top(t).obj IN
        /\ m_runnableHandlers' = [m_runnableHandlers EXCEPT ![s] = Append(@, Top(t).cb)]
        /\ NotifyOne(s)
        /\ sched_mtx' = [sched_mtx EXCEPT ![s] = NoThread]
    /\ stack' = [stack EXCEPT ![t] = Popped(t)]
    /\ UNCHANGED <<m_tasks, m_finishedWaiters, m_isEnding, schedHist, runLog, coVars,
                   outsideSched>>

\* markCompleted: lck(m_mtx)
MarkCompletedLock(t) ==
    /\ At(t, "mc_lock")
    /\ sched_mtx[Top(t).obj] = NoThread
    /\ sched_mtx' = [sched_mtx EXCEPT ![Top(t).obj] = t]
    /\ stack' = [stack EXCEPT ![t] = Replaced(t, [Top(t) EXCEPT !.pc = "mc_insert"])]
    /\ UNCHANGED <<m_tasks, m_runnableHandlers, m_finishedWaiters, m_isEnding, m_cv,
                   schedHist, runLog, coVars, outsideSched>>

\* a markCompleted that wakes nobody
MarkCompletedInsert_NoNotify(t) ==
    /\ At(t, "mc_insert")
    /\ LET s == Top(t).obj IN
        /\ m_finishedWaiters' = [m_finishedWaiters EXCEPT ![s] = @ \cup {Top(t).cb.obj}]
        /\ sched_mtx' = [sched_mtx EXCEPT ![s] = NoThread]
    /\ stack' = [stack EXCEPT ![t] = Popped(t)]
    /\ UNCHANGED <<m_tasks, m_runnableHandlers, m_isEnding, m_cv, schedHist, runLog, coVars,
                   outsideSched>>

\* markCompleted: m_finishedWaiters.insert(id); m_cv.notify_all(); return
MarkCompletedInsert(t) ==
    /\ At(t, "mc_insert")
    /\ LET s == Top(t).obj IN
        /\ m_finishedWaiters' = [m_finishedWaiters EXCEPT ![s] = @ \cup {Top(t).cb.obj}]
        /\ m_cv' = [m_cv EXCEPT ![s] = {}]
        /\ sched_mtx' = [sched_mtx EXCEPT ![s] = NoThread]
    /\ stack' = [stack EXCEPT ![t] = Popped(t)]
    /\ UNCHANGED <<m_tasks, m_runnableHandlers, m_isEnding, schedHist, runLog, coVars,
                   outsideSched>>

\* runAllPending: if (this_thread::get_id() != m_threadId) return;
RapEnter(t) ==
    /\ At(t, "rap_enter")
    /\ stack' = [stack EXCEPT ![t] =
                    IF t # m_threadId THEN Popped(t)
                    ELSE Replaced(t, [Top(t) EXCEPT !.pc = "rap_lock"])]
    /\ UNCHANGED <<schedVars, schedHist, runLog, coVars, outsideSched>>

\* runAllPending: lck(m_mtx) at its start, lck.lock() after a task or a
\* coroutine has run
RapLock(t) ==
    /\ At(t, "rap_lock")
    /\ sched_mtx[Top(t).obj] = NoThread
    /\ sched_mtx' = [sched_mtx EXCEPT ![Top(t).obj] = t]
    /\ stack' = [stack EXCEPT ![t] = Replaced(t, [Top(t) EXCEPT !.pc = "rap_loop"])]
    /\ UNCHANGED <<m_tasks, m_runnableHandlers, m_finishedWaiters, m_isEnding, m_cv,
                   schedHist, runLog, coVars, outsideSched>>

\* one turn of the loop of runAllPending with the lock held: run a
\* coroutine, else run a task, else return
RapLoop(t) ==
    /\ At(t, "rap_loop")
    /\ LET s == Top(t).obj IN
        IF HasWork(s)
        THEN TakeWork(t, s, "rap_run")
        ELSE /\ sched_mtx' = [sched_mtx EXCEPT ![s] = NoThread]
             /\ stack' = [stack EXCEPT ![t] = Popped(t)]
             /\ UNCHANGED <<m_tasks, m_runnableHandlers>>
    /\ UNCHANGED <<m_finishedWaiters, m_isEnding, m_cv, schedHist, runLog, coVars,
                   outsideSched>>

\* runAllPending: task() or h.resume(), after lck.unlock()
RapRun(t) ==
    /\ At(t, "rap_run")
    /\ Invoke(t, Top(t).cb, Top(t).obj,
              Replaced(t, [Top(t) EXCEPT !.pc = "rap_lock", !.cb = NoCb]))
    /\ UNCHANGED <<schedVars, schedHist, coVars, outsideSched>>

\* OneThreadScheduler::waitFor(id): lck(m_mtx) at its start, lck.lock()
\* after a task or a coroutine has run. The id is the calling thread's.
WfLock(t) ==
    /\ At(t, "wf_lock")
    /\ sched_mtx[Top(t).obj] = NoThread
    /\ sched_mtx' = [sched_mtx EXCEPT ![Top(t).obj] = t]
    /\ stack' = [stack EXCEPT ![t] = Replaced(t, [Top(t) EXCEPT !.pc = "wf_loop"])]
    /\ UNCHANGED <<m_tasks, m_runnableHandlers, m_finishedWaiters, m_isEnding, m_cv,
                   schedHist, runLog, coVars, outsideSched>>

\* one turn of the loop of waitFor with the lock held: return if the id is
\* among the finished waiters; on the bound thread of a OneThreadScheduler,
\* and on any thread for a ThreadPool, run a coroutine, else a task;
\* otherwise, and on any other thread of a OneThreadScheduler, m_cv.wait(lck)
WfLoop(t) ==
    /\ At(t, "wf_loop")
    /\ LET s == Top(t).obj IN
        IF t \in m_finishedWaiters[s]
        THEN /\ m_finishedWaiters' = [m_finishedWaiters EXCEPT ![s] = @ \ {t}]
             /\ sched_mtx' = [sched_mtx EXCEPT ![s] = NoThread]
             /\ stack' = [stack EXCEPT ![t] = Popped(t)]
             /\ UNCHANGED <<m_tasks, m_runnableHandlers, m_cv>>
        ELSE IF RunsWorkInWaitFor(t, s) /\ HasWork(s)
        THEN /\ TakeWork(t, s, "wf_run")
             /\ UNCHANGED <<m_finishedWaiters, m_cv>>
        ELSE /\ m_cv' = [m_cv EXCEPT ![s] = @ \cup {t}]
             /\ sched_mtx' = [sched_mtx EXCEPT ![s] = NoThread]
             /\ stack' = [stack EXCEPT ![t] = Replaced(t, [Top(t) EXCEPT !.pc = "wf_wait"])]
             /\ UNCHANGED <<m_tasks, m_runnableHandlers, m_finishedWaiters>>
    /\ UNCHANGED <<m_isEnding, schedHist, runLog, coVars, outsideSched>>

\* waitFor: m_cv.wait(lck) returns, with the lock held again
WfWake(t) ==
    /\ At(t, "wf_wait")
    /\ t \notin m_cv[Top(t).obj]
    /\ sched_mtx[Top(t).obj] = NoThread
    /\ sched_mtx' = [sched_mtx EXCEPT ![Top(t).obj] = t]
    /\ stack' = [stack EXCEPT ![t] = Replaced(t, [Top(t) EXCEPT !.pc = "wf_loop"])]
    /\ UNCHANGED <<m_tasks, m_runnableHandlers, m_finishedWaiters, m_isEnding, m_cv,
                   schedHist, runLog, coVars, outsideSched>>

\* waitFor: task() or h.resume(), after lck.unlock()
WfRun(t) ==
    /\ At(t, "wf_run")
    /\ Invoke(t, Top(t).cb, Top(t).obj,
              Replaced(t, [Top(t) EXCEPT !.pc = "wf_lock", !.cb = NoCb]))
    /\ UNCHANGED <<schedVars, schedHist, coVars, outsideSched>>

OtsStep(t) ==
    \/ MarkRunnableLock(t) \/ MarkRunnablePush(t)
    \/ MarkCompletedLock(t) \/ MarkCompletedInsert(t)
    \/ RapEnter(t) \/ RapLock(t) \/ RapLoop(t) \/ RapRun(t)
    \/ WfLock(t) \/ WfLoop(t) \/ WfWake(t) \/ WfRun(t)

(***************************************************************************)
(* Coroutines returning Future<int>: Future<T>::promise_type, the awaiters *)
(* SwitchThreadAwaiter and FutureAwaiter, and the body                     *)
(*   co_await schedulingInfo; CHECK; int ret = (co_await f) + 1; CHECK;    *)
(*   co_return ret;                                                        *)
(* Coroutine 1 awaits F and its promise is cell R; coroutine 2 awaits R    *)
(* and its promise is cell S.                                              *)
(***************************************************************************)
Coros == {1, 2}
\* the future f the coroutine awaits, and the cell of its own promise
Awaited(k) == IF k = 1 THEN "F" ELSE "R"
PromiseCell(k) == IF k = 1 THEN "R" ELSE "S"
CoroutineStart == {"sameThread", "parallel"}

CoFrame(pc, k) == Frame(pc, "co", NoCb, not_completed, k, NoErr, <<>>)

\* a removeRef that disposes one reference too early
ShouldDispose_Early(old) == old <= 2

\* removeRef: auto const old = m_refcount.fetch_sub(1); if (old == 1) dispose()
ShouldDispose(old) == old = 1

\* the owners of a Future of a coroutine are the test and the frame of the
\* coroutine that awaits it
\* removeRef on the promise of coroutine k by the owner who (or by
\* final_suspend, for the reference the promise's constructor took), on the
\* coroutines co. dispose is m_handle.destroy(): the frame of k is destroyed
\* and, with it, the Future it holds as its parameter f, which calls
\* removeRef on the promise of the coroutine it awaits.
FrameOf(k) == IF k = 1 THEN "frame1" ELSE "frame2"
RECURSIVE CoRemoveRef(_, _, _)
CoRemoveRef(co, k, who) ==
    LET old == co[k].refcount
        co1 == [co EXCEPT ![k].refcount = old - 1, ![k].holders = @ \ {who}]
        co2 == [co1 EXCEPT ![k].destroyed = @ + 1]
        held == {x \in DOMAIN co : FrameOf(k) \in co[x].holders}
    IN IF ShouldDispose(old)
       THEN IF held = {} THEN co2
            ELSE CoRemoveRef(co2, CHOOSE x \in held : TRUE, FrameOf(k))
       ELSE co1

\* a segment of coroutine k starts on thread t, called from the frame under it
Segment(t, k, seg) ==
    [coro |-> k, seg |-> seg, thread |-> t, sched |-> coro[k].sched,
     under |-> IF Depth(t) > 1 THEN stack[t][Depth(t) - 1].pc ELSE "caller"]

\* co_await schedulingInfo: await_transform sets m_pScheduler; await_ready is
\* startInfo == sameThread && !scheduler->initSwitchThread(); if not ready
\* the coroutine is suspended and await_suspend calls markRunnable
CoAwaitSched(t) ==
    /\ At(t, "co_await_sched")
    /\ LET k == Top(t).val
           s == Top(t).cb.sch
       IN IF coro[k].start = "sameThread" /\ ~initSwitchThread(t, s)
          THEN /\ coro' = [coro EXCEPT ![k].sched = s]
               /\ stack' = [stack EXCEPT ![t] = Replaced(t, CoFrame("co_seg1", k))]
          ELSE /\ coro' = [coro EXCEPT ![k].sched = s, ![k].status = "suspended",
                                       ![k].pc = "co_seg1"]
               /\ stack' = [stack EXCEPT ![t] =
                               Replaced(t, Frame("mr_lock", s, HandleCb(k), not_completed,
                                                 NoVal, NoErr, <<>>))]
    /\ UNCHANGED <<schedVars, schedHist, runLog, segLog, outsideSched>>

\* h.resume(): the coroutine goes on from where it was suspended
CoResume(t) ==
    /\ At(t, "co_resume")
    /\ LET k == Top(t).val IN
        IF coro[k].status = "suspended"
        THEN /\ coro' = [coro EXCEPT ![k].status = "running"]
             /\ stack' = [stack EXCEPT ![t] = Replaced(t, CoFrame(coro[k].pc, k))]
        ELSE /\ coro' = [coro EXCEPT ![k].fault = TRUE]
             /\ stack' = [stack EXCEPT ![t] = Popped(t)]
    /\ UNCHANGED <<schedVars, schedHist, runLog, segLog, outsideSched>>

\* the segment after co_await schedulingInfo, up to co_await f:
\* FutureAwaiter::await_ready is f.isComplete(); if not ready the coroutine
\* is suspended and await_suspend registers the callback that calls
\* pScheduler->markRunnable(thisHandler) on f
CoSeg1(t) ==
    /\ At(t, "co_seg1")
    /\ LET k == Top(t).val
           f == Awaited(k)
       IN /\ segLog' = segLog \cup {Segment(t, k, 1)}
          /\ IF m_state[f] # not_completed
             THEN /\ stack' = [stack EXCEPT ![t] = Replaced(t, CoFrame("co_seg2", k))]
                  /\ UNCHANGED coro
             ELSE /\ coro' = [coro EXCEPT ![k].status = "suspended", ![k].pc = "co_seg2"]
                  /\ stack' = [stack EXCEPT ![t] =
                                  Replaced(t, Frame("add_lock", f, ResumeCb(k, coro[k].sched),
                                                    not_completed, NoVal, NoErr, <<>>))]
    /\ UNCHANGED <<schedVars, schedHist, runLog, outsideSched>>

\* the segment after co_await f: await_resume is f.get(), which returns the
\* value or rethrows; co_return ret calls return_value, that is set(ret), and
\* an exception leaves through unhandled_exception, that is setException
CoSeg2(t) ==
    /\ At(t, "co_seg2")
    /\ LET k == Top(t).val
           f == Awaited(k)
       IN /\ m_state[f] # not_completed
          /\ segLog' = segLog \cup {Segment(t, k, 2)}
          /\ stack' = [stack EXCEPT ![t] =
                Append(Replaced(t, CoFrame("co_final", k)),
                       IF m_state[f] = completed_normally
                       THEN Frame("set_store", PromiseCell(k), NoCb, completed_normally,
                                  m_val[f] + 1, NoErr, <<>>)
                       ELSE Frame("exc_store", PromiseCell(k), NoCb, exception, NoVal,
                                  m_exception[f], <<>>))]
    /\ UNCHANGED <<schedVars, schedHist, runLog, coro, outsideSched>>

\* final_suspend: the coroutine stays suspended at its end and control
\* returns to whoever resumed it
CoFinal(t) ==
    /\ At(t, "co_final")
    /\ coro' = CoRemoveRef([coro EXCEPT ![Top(t).val].status = "done"], Top(t).val,
                           "final_suspend")
    /\ stack' = [stack EXCEPT ![t] = Popped(t)]
    /\ UNCHANGED <<schedVars, schedHist, runLog, segLog, outsideSched>>

CoStep(t) ==
    \/ CoAwaitSched(t) \/ CoResume(t) \/ CoSeg1(t) \/ CoSeg2(t) \/ CoFinal(t)

\* threads other than the one that completes F
OtsClients == {"t1", "t2"}

\* a thread calls coroFunc(scheduler.sameThreadStart() or parallelStart(), f):
\* the promise is created on the default scheduler and, initial_suspend
\* being suspend_never, the body starts on the calling thread
CallCoroutine(t) ==
    /\ t \in OtsClients
    /\ Idle(t)
    /\ \E k \in Coros, si \in CoroutineStart :
        /\ coro[k].status = "new"
        /\ \A j \in Coros : j < k => coro[j].status # "new"
        /\ \A j \in Coros : j < k => "test" \in coro[j].holders
        /\ coro' = [j \in Coros |->
                    IF j = k
                    THEN [status |-> "running", pc |-> "co_await_sched", sched |-> "pool",
                          start |-> si, starter |-> t, fault |-> FALSE, refcount |-> 2,
                          destroyed |-> 0, holders |-> {"test"}]
                    ELSE IF j = k - 1
                    THEN [coro[j] EXCEPT !.refcount = @ + 1, !.holders = @ \cup {FrameOf(k)}]
                    ELSE coro[j]]
        /\ stack' = [stack EXCEPT ![t] =
                        <<Frame("co_await_sched", "co", SchedulingInfo("ots"), not_completed,
                                k, NoErr, <<>>)>>]
    /\ UNCHANGED <<schedVars, schedHist, runLog, segLog, outsideSched>>

\* a thread calls scheduler.runAllPending()
CallRunAllPending(t) ==
    /\ t \in OtsClients
    /\ Idle(t)
    /\ stack' = [stack EXCEPT ![t] =
                    <<Frame("rap_enter", "ots", NoCb, not_completed, NoVal, NoErr, <<>>)>>]
    /\ UNCHANGED <<schedVars, schedHist, runLog, coVars, outsideSched>>

\* a thread waits for the future of the last coroutine through the
\* scheduler: addSynchronousCallback([&dummy, pScheduler]() {
\* pScheduler->markCompleted(&dummy); }); pScheduler->waitFor(&dummy);
CallWaitFor(t) ==
    /\ t \in OtsClients
    /\ Idle(t)
    /\ \E k \in Coros :
        /\ coro[k].status # "new"
        /\ \A j \in Coros : j <= k
        /\ stack' = [stack EXCEPT ![t] =
                        <<Frame("wf_lock", "ots", NoCb, not_completed, NoVal, NoErr, <<>>),
                          Frame("add_lock", PromiseCell(k), MarkCompletedCb(t, "ots"),
                                not_completed, NoVal, NoErr, <<>>)>>]
    /\ UNCHANGED <<schedVars, schedHist, runLog, coVars, outsideSched>>

\* the Future of coroutine k that the test holds goes out of scope:
\* ~IntrusiveSharedPtr calls removeRef
DropFuture(t, k) ==
    /\ Idle(t)
    /\ "test" \in coro[k].holders
    /\ coro' = CoRemoveRef(coro, k, "test")
    /\ UNCHANGED <<stack, schedVars, schedHist, runLog, segLog, outsideSched>>

InitCo ==
    /\ coro = [k \in Coros |-> [status |-> "new", pc |-> "co_await_sched", sched |-> "pool",
                               start |-> "sameThread", starter |-> NoThread,
                               fault |-> FALSE, refcount |-> 0, destroyed |-> 0,
                               holders |-> {}]]
    /\ segLog = {}

(***************************************************************************)
(* Continuation tasks (FutureHelpers.h): what is common to them.           *)
(***************************************************************************)
InitTask ==
    /\ taskClass = [class |-> "none", void |-> FALSE, byValue |-> FALSE, futures |-> <<>>]
    /\ m_currentFuture = NoCell
    /\ m_pAsyncOpFuture = NoCell
    /\ m_remaining = 0
    /\ callLog = <<>>
    /\ escaped = <<>>

\* what a call of a user function yields: it returns (a value, a bool or a
\* future, whichever its type is), or it throws
RetValue(v) ==
    [st |-> completed_normally, val |-> v, err |-> NoErr, ret |-> NoCell, more |-> FALSE]
RetBool(b) ==
    [st |-> completed_normally, val |-> NoVal, err |-> NoErr, ret |-> NoCell, more |-> b]
RetFuture(c) ==
    [st |-> completed_normally, val |-> NoVal, err |-> NoErr, ret |-> c, more |-> FALSE]
Throws(e) ==
    [st |-> exception, val |-> NoVal, err |-> e, ret |-> NoCell, more |-> FALSE]

\* the frames of onFutureCompleted of the loop task on the stack of thread t
LoopPcs == {"loop_ofc", "loop_body", "loop_reset", "loop_ret"}
Nesting(t) == Cardinality({i \in DOMAIN stack[t] : stack[t][i].pc \in LoopPcs})

\* the record of one call of a user function by the task of cell r
UserCall(fn, r, t, arg, argErr, out) ==
    [fn |-> fn, task |-> r, thread |-> t, arg |-> arg, argErr |-> argErr, out |-> out,
     nest |-> Nesting(t), inputs |-> <<m_state["F"], m_state["G"]>>]

\* the futures user functions have returned so far, and the next one
ReturnedCells == {callLog[i].out.ret : i \in DOMAIN callLog} \ {NoCell}
NextInner == InnerCells[Cardinality(ReturnedCells) + 1]

\* the future a user function returns: completedFuture(v), exceptionFuture(e)
\* or the future of a promise that is completed later
FutureStates(vals, errs) ==
    {[st |-> not_completed, val |-> NoVal, err |-> NoErr]}
        \cup {[st |-> completed_normally, val |-> v, err |-> NoErr] : v \in vals}
        \cup {[st |-> exception, val |-> NoVal, err |-> e] : e \in errs}

\* the user function returns the fresh future b in state fs
MakeFuture(b, fs) ==
    /\ m_state' = [m_state EXCEPT ![b] = fs.st]
    /\ m_val' = [m_val EXCEPT ![b] = fs.val]
    /\ m_exception' = [m_exception EXCEPT ![b] = fs.err]

\* an exception e in flight on thread t, thrown by the innermost call
ThrowFrame(e) == Frame("throw", "-", NoCb, exception, NoVal, e, <<>>)

\* the frames whose callee runs inside the try block of computeAndSet
CatchPcs == {"task_ret", "ca_ret", "rt_ret", "wa_try"}
\* the frames of lambdas and functions declared noexcept with no try block
\* around the call in progress
NoexceptPcs == {"ta_task", "wa_task"}
\* the frames of a thread function, out of which an exception ends the
\* process as well
ThreadFuncPcs == {"tf_lock"}

\* after std::terminate no thread of the process runs any more
TerminatedFrame == Frame("terminated", "-", NoCb, not_completed, NoVal, NoErr, <<>>)

\* std::terminate was called
Terminated == \E i \in DOMAIN escaped : escaped[i].to = "terminate"

\* The exception in flight on thread t unwinds the stack: to the innermost
\* try block, where computeAndSet's catch (...) calls setException on its
\* cell; or to a noexcept function or the thread function, where
\* std::terminate is called and the process ends; or out of the library to
\* the caller.
Unwind(t) ==
    /\ At(t, "throw")
    /\ LET e == Top(t).err
           below == Popped(t)
           stops == {i \in DOMAIN below :
                        below[i].pc \in CatchPcs \cup NoexceptPcs \cup ThreadFuncPcs}
       IN IF stops = {}
          THEN /\ stack' = [stack EXCEPT ![t] = <<>>]
               /\ escaped' = Append(escaped, [err |-> e, thread |-> t, to |-> "caller"])
          ELSE LET i == CHOOSE j \in stops : \A k \in stops : k <= j
               IN IF below[i].pc \in CatchPcs
                  THEN /\ stack' = [stack EXCEPT ![t] =
                                       Append(SubSeq(below, 1, i),
                                              Frame("exc_store", below[i].obj, NoCb,
                                                    exception, NoVal, e, <<>>))]
                       /\ UNCHANGED escaped
                  ELSE /\ stack' = [u \in Threads |-> <<TerminatedFrame>>]
                       /\ escaped' = Append(escaped,
                                            [err |-> e, thread |-> t, to |-> "terminate"])
    /\ UNCHANGED <<cellVars, histVars, waitVars, streamVars, queueVars, queueHist, schedVars,
                   schedHist, coVars,
                   taskClass, m_currentFuture, m_pAsyncOpFuture, m_remaining, callLog>>

\* setFromOtherFutureMove(pF) on the cell r: the call of set or setException
\* it makes
SetFromOtherFutureMove(r, pF) ==
    IF isCompletedNormally(m_state[pF])
    THEN Frame("set_store", r, NoCb, completed_normally, m_val[pF], NoErr, <<>>)
    ELSE Frame("exc_store", r, NoCb, exception, NoVal, m_exception[pF], <<>>)

\* a thread calls Promise::set or Promise::setException on the cell c, which
\* no call has completed yet, with one of the outcomes outs
CallComplete(t, c, outs) ==
    /\ Idle(t)
    /\ m_state[c] = not_completed
    /\ \A i \in DOMAIN compl : compl[i].cell # c
    /\ \E out \in outs :
        /\ compl' = Append(compl, [thread |-> t, cell |-> c, st |-> out.st,
                                   val |-> out.val, err |-> out.err, done |-> FALSE])
        /\ stack' = [stack EXCEPT ![t] =
                        <<Frame(IF out.st = exception THEN "exc_store" ELSE "set_store",
                                c, NoCb, out.st, out.val, out.err, <<>>)>>]
    /\ UNCHANGED <<cellVars, runLog, regs, before, outsideCells>>

\* the outcomes of a completion call
Outcomes(vals, errs) == FutureStates(vals, errs) \ FutureStates({}, {})

\* a thread completes a future that a user function returned
CallCompleteInner(t, outs) ==
    \E b \in ReturnedCells : CallComplete(t, b, outs)

(***************************************************************************)
(* Future<T>::thenAsyncLoop(pExecutor, cond, body):                        *)
(* ContinuationTaskAsyncLoop. The task's cell is R, its antecedent F.      *)
(***************************************************************************)
\* the number of times cond returns true at most
MaxIters == 2

\* the calls of cond that returned true
TrueConds == {i \in DOMAIN callLog : callLog[i].fn = "cond" /\ callLog[i].out.more}

\* what cond(v) can do: return true or false, or throw
CondOutcomes == {RetBool(TRUE), RetBool(FALSE)} \cup {Throws(e) : e \in Errors}

\* a loop that asks nothing and goes on
LoopGoesOn_Always(condResult) == TRUE

\* onFutureCompleted: if (m_cond(m_currentFuture.get())): the loop goes on
LoopGoesOn(condResult) == condResult

\* onFutureCompleted(pThis), up to the call of cond. If m_currentFuture is
\* completed normally, cond is called on its value: when it returns true the
\* body is called next, when it returns false the value is set on the task's
\* cell by setFromOtherFutureMove; what it throws is not caught. Otherwise
\* the exception of m_currentFuture is set on the task's cell.
LoopOnFutureCompleted(t) ==
    /\ At(t, "loop_ofc")
    /\ LET r == Top(t).obj
           cur == m_currentFuture
       IN IF isCompletedNormally(m_state[cur])
          THEN \E out \in CondOutcomes :
                /\ out.more => Cardinality(TrueConds) < MaxIters
                /\ callLog' = Append(callLog, UserCall("cond", r, t, m_val[cur], NoErr, out))
                /\ stack' = [stack EXCEPT ![t] =
                    CASE out.st = exception -> Append(stack[t], ThrowFrame(out.err))
                      [] out.st # exception /\ LoopGoesOn(out.more) ->
                            Replaced(t, [Top(t) EXCEPT !.pc = "loop_body"])
                      [] OTHER ->
                            Append(Replaced(t, [Top(t) EXCEPT !.pc = "loop_reset"]),
                                   SetFromOtherFutureMove(r, cur))]
          ELSE /\ m_state[cur] # not_completed
               /\ stack' = [stack EXCEPT ![t] =
                               Append(Replaced(t, [Top(t) EXCEPT !.pc = "loop_reset"]),
                                      Frame("exc_store", r, NoCb, exception, NoVal,
                                            m_exception[cur], <<>>))]
               /\ UNCHANGED callLog
    /\ UNCHANGED <<cellVars, histVars, waitVars, streamVars, queueVars, queueHist, schedVars,
                   schedHist, coVars,
                   taskClass, m_currentFuture, m_pAsyncOpFuture, m_remaining, escaped>>

\* onFutureCompleted: m_currentFuture = m_body(m_currentFuture.get()), and
\* then m_currentFuture.addSynchronousCallback(...). The body returns a
\* fresh future, completed or not, or throws, which is not caught.
LoopBody(t) ==
    /\ At(t, "loop_body")
    /\ LET r == Top(t).obj
           cur == m_currentFuture
           b == NextInner
       IN \/ \E e \in Errors :
                /\ callLog' = Append(callLog,
                                     UserCall("body", r, t, m_val[cur], NoErr, Throws(e)))
                /\ stack' = [stack EXCEPT ![t] = Append(stack[t], ThrowFrame(e))]
                /\ UNCHANGED <<cellVars, m_currentFuture>>
          \/ \E fs \in FutureStates(Values, Errors) :
                /\ callLog' = Append(callLog,
                                     UserCall("body", r, t, m_val[cur], NoErr, RetFuture(b)))
                /\ MakeFuture(b, fs)
                /\ m_currentFuture' = b
                /\ stack' = [stack EXCEPT ![t] =
                                Append(Replaced(t, [Top(t) EXCEPT !.pc = "loop_ret"]),
                                       Frame("add_lock", b, LoopCb(r), not_completed, NoVal,
                                             NoErr, <<>>))]
                /\ UNCHANGED <<m_continuations, m_mtx, movedFrom>>
    /\ UNCHANGED <<histVars, waitVars, streamVars, queueVars, queueHist, schedVars, schedHist,
                   coVars,
                   taskClass, m_pAsyncOpFuture, m_remaining, escaped>>

\* onFutureCompleted: m_currentFuture.reset(), after the task's cell was set
LoopReset(t) ==
    /\ At(t, "loop_reset")
    /\ m_currentFuture' = NoCell
    /\ stack' = [stack EXCEPT ![t] = Popped(t)]
    /\ UNCHANGED <<cellVars, histVars, waitVars, streamVars, queueVars, queueHist, schedVars,
                   schedHist, coVars,
                   taskClass, m_pAsyncOpFuture, m_remaining, callLog, escaped>>

\* onFutureCompleted returns after the callback was added to the new future
LoopRet(t) ==
    /\ At(t, "loop_ret")
    /\ stack' = [stack EXCEPT ![t] = Popped(t)]
    /\ UNCHANGED <<cellVars, histVars, waitVars, streamVars, queueVars, queueHist, schedVars,
                   schedHist, coVars,
                   taskVars>>

LoopStep(t) ==
    \/ LoopOnFutureCompleted(t) \/ LoopBody(t) \/ LoopReset(t) \/ LoopRet(t)

\* a thread calls F.thenAsyncLoop(pool, cond, body): the task's cell is R
CallThenAsyncLoop(t) ==
    /\ Idle(t)
    /\ thenCalls["R"] = "none"
    /\ thenCalls' = [thenCalls EXCEPT !["R"] = "calling"]
    /\ taskClass' = [class |-> "ContinuationTaskAsyncLoop", void |-> FALSE,
                     byValue |-> FALSE, futures |-> <<>>]
    /\ m_currentFuture' = "F"
    /\ stack' = [stack EXCEPT ![t] =
                    <<Frame("then_ret", "R", NoCb, not_completed, NoVal, NoErr, <<>>),
                      Frame("add_lock", "F", LoopCb("R"), not_completed, NoVal, NoErr,
                            <<>>)>>]
    /\ UNCHANGED <<cellVars, histVars, waitVars, streamVars, queueVars, queueHist, schedVars,
                   fLog, taskLog,
                   coVars, m_pAsyncOpFuture, m_remaining, callLog, escaped>>

(***************************************************************************)
(* Future<T>::thenAsync(pExecutor, func):                                  *)
(* ContinuationAsyncTaskFromOneFuture, and                                 *)
(* Future<T>::thenCatchAllAsync(pExecutor, func):                          *)
(* ContinuationTaskAsyncCatchAll. The task's cell is R, its antecedent F.  *)
(***************************************************************************)
\* what the actions of a continuation task leave alone, besides the cells,
\* the stacks and the task's own fields
besidesTask == <<histVars, queueVars, queueHist, schedVars, schedHist, coVars, waitVars,
                 streamVars>>

\* what a user function returning a future can do: return a fresh future,
\* completed or not, or throw
AsyncOutcomes == {Throws(e) : e \in Errors} \cup {RetFuture(NextInner)}

\* the user function fn of the task of cell r is called by thread t with
\* the value arg or the exception argErr. If it returns, it is with the
\* fresh future NextInner in any state, which is stored in m_pAsyncOpFuture
\* and on which the callback cb is registered, the caller going on at pc
\* after; if it throws, the exception unwinds from the caller's frame.
CallAsyncFunc(t, fn, r, arg, argErr, cb, after) ==
    \E out \in AsyncOutcomes :
        /\ callLog' = Append(callLog, UserCall(fn, r, t, arg, argErr, out))
        /\ IF out.st = exception
           THEN /\ stack' = [stack EXCEPT ![t] =
                                Append(Replaced(t, [Top(t) EXCEPT !.pc = after]),
                                       ThrowFrame(out.err))]
                /\ UNCHANGED <<cellVars, m_pAsyncOpFuture>>
           ELSE /\ \E fs \in FutureStates(Values, Errors) : MakeFuture(out.ret, fs)
                /\ m_pAsyncOpFuture' = out.ret
                /\ stack' = [stack EXCEPT ![t] =
                                Append(Replaced(t, [Top(t) EXCEPT !.pc = after]),
                                       Frame("add_lock", out.ret, cb, not_completed,
                                             NoVal, NoErr, <<>>))]
                /\ UNCHANGED <<m_continuations, m_mtx, movedFrom>>

\* ContinuationAsyncTaskFromOneFuture::onFutureCompleted(pThis): a normally
\* completed antecedent has the task that calls func enqueued on the
\* executor; otherwise the antecedent's exception is set on the task's cell
AsyncOnFutureCompleted(t) ==
    /\ At(t, "ta_ofc")
    /\ LET r == Top(t).obj
           cb == Top(t).cb
       IN IF isCompletedNormally(m_state[m_future(r)])
          THEN stack' = [stack EXCEPT ![t] =
                            Replaced(t, Frame("enqueue_lock", cb.sch, AsyncTask(r, cb.sch),
                                              not_completed, NoVal, NoErr, <<>>))]
          ELSE /\ m_state[m_future(r)] # not_completed
               /\ stack' = [stack EXCEPT ![t] =
                               Replaced(t, Frame("exc_store", r, NoCb, exception, NoVal,
                                                 m_exception[m_future(r)], <<>>))]
    /\ UNCHANGED <<cellVars, besidesTask, taskVars>>

\* the task enqueued by onFutureCompleted, a noexcept lambda:
\* m_pAsyncOpFuture = m_func(m_pAntecessorFuture->get()), with no try block,
\* and then m_pAsyncOpFuture->addSynchronousCallback(...)
AsyncTaskCall(t) ==
    /\ At(t, "ta_call")
    /\ LET r == Top(t).obj
           f == m_future(r)
       IN /\ m_state[f] # not_completed
          /\ IF m_state[f] = completed_normally
             THEN CallAsyncFunc(t, "func", r, m_val[f], NoErr,
                                InnerCb(r, Top(t).cb.sch), "ta_task")
             ELSE /\ stack' = [stack EXCEPT ![t] =
                                  Append(Replaced(t, [Top(t) EXCEPT !.pc = "ta_task"]),
                                         ThrowFrame(m_exception[f]))]
                  /\ UNCHANGED <<cellVars, m_pAsyncOpFuture, callLog>>
    /\ UNCHANGED <<besidesTask, taskClass, m_currentFuture, m_remaining, escaped>>

\* the task returns after m_pAntecessorFuture.reset()
AsyncTaskRet(t) ==
    /\ At(t, "ta_task")
    /\ stack' = [stack EXCEPT ![t] = Popped(t)]
    /\ UNCHANGED <<cellVars, besidesTask, taskVars>>

\* onInnerFutureCompleted(pThis): a normally completed inner future has the
\* task that moves its value enqueued on the executor; otherwise its
\* exception is set on the task's cell and m_pAsyncOpFuture is reset
OnInnerFutureCompleted(t) ==
    /\ At(t, "ta_inner")
    /\ LET r == Top(t).obj
           cb == Top(t).cb
           b == m_pAsyncOpFuture
       IN IF isCompletedNormally(m_state[b])
          THEN stack' = [stack EXCEPT ![t] =
                            Replaced(t, Frame("enqueue_lock", cb.sch, SetFromTask(r),
                                              not_completed, NoVal, NoErr, <<>>))]
          ELSE /\ m_state[b] # not_completed
               /\ stack' = [stack EXCEPT ![t] =
                               Append(Replaced(t, [Top(t) EXCEPT !.pc = "ta_reset"]),
                                      Frame("exc_store", r, NoCb, exception, NoVal,
                                            m_exception[b], <<>>))]
    /\ UNCHANGED <<cellVars, besidesTask, taskVars>>

\* the task enqueued by onInnerFutureCompleted, and
\* ContinuationTaskAsyncCatchAll::onExceptionHandlerComplete:
\* setFromOtherFutureMove(m_pAsyncOpFuture)
SetFromInner(t) ==
    /\ At(t, "ta_setfrom") \/ At(t, "caa_complete")
    /\ stack' = [stack EXCEPT ![t] =
                    Append(Replaced(t, [Top(t) EXCEPT !.pc = "ta_reset"]),
                           SetFromOtherFutureMove(Top(t).obj, m_pAsyncOpFuture))]
    /\ UNCHANGED <<cellVars, besidesTask, taskVars>>

\* m_pAsyncOpFuture.reset() / m_exceptionHandlerFuture.reset(), and return
AsyncReset(t) ==
    /\ At(t, "ta_reset")
    /\ m_pAsyncOpFuture' = NoCell
    /\ stack' = [stack EXCEPT ![t] = Popped(t)]
    /\ UNCHANGED <<cellVars, besidesTask, taskClass, m_currentFuture, m_remaining,
                   callLog, escaped>>

\* ContinuationTaskAsyncCatchAll::onFutureCompleted(pThis): the value of a
\* normally completed antecedent is moved to the task's cell; otherwise
\* m_exceptionHandlerFuture = m_func(m_antecessorFuture.getException()),
\* called in place with no try block, and then
\* m_exceptionHandlerFuture.addSynchronousCallback(...)
CatchAllAsyncOnFutureCompleted(t) ==
    /\ At(t, "caa_ofc")
    /\ LET r == Top(t).obj
           f == m_future(r)
       IN IF isCompletedNormally(m_state[f])
          THEN /\ stack' = [stack EXCEPT ![t] =
                               Append(Replaced(t, [Top(t) EXCEPT !.pc = "caa_ret"]),
                                      SetFromOtherFutureMove(r, f))]
               /\ UNCHANGED <<cellVars, m_pAsyncOpFuture, callLog>>
          ELSE /\ m_state[f] # not_completed
               /\ CallAsyncFunc(t, "handler", r, NoVal, m_exception[f],
                                HandlerCompleteCb(r), "caa_ret")
    /\ UNCHANGED <<besidesTask, taskClass, m_currentFuture, m_remaining, escaped>>

\* onFutureCompleted returns
CatchAllAsyncRet(t) ==
    /\ At(t, "caa_ret")
    /\ stack' = [stack EXCEPT ![t] = Popped(t)]
    /\ UNCHANGED <<cellVars, besidesTask, taskVars>>

AsyncStep(t) ==
    \/ AsyncOnFutureCompleted(t) \/ AsyncTaskCall(t) \/ AsyncTaskRet(t)
    \/ OnInnerFutureCompleted(t) \/ SetFromInner(t) \/ AsyncReset(t)
    \/ CatchAllAsyncOnFutureCompleted(t) \/ CatchAllAsyncRet(t)

\* a thread calls an operator of F that makes the continuation task of the
\* class cls, whose cell is R, and registers the callback cb on F
CallOperator(t, cls, void, byValue, cb) ==
    /\ Idle(t)
    /\ thenCalls["R"] = "none"
    /\ thenCalls' = [thenCalls EXCEPT !["R"] = "calling"]
    /\ taskClass' = [class |-> cls, void |-> void, byValue |-> byValue, futures |-> <<>>]
    /\ stack' = [stack EXCEPT ![t] =
                    <<Frame("then_ret", "R", NoCb, not_completed, NoVal, NoErr, <<>>),
                      Frame("add_lock", "F", cb, not_completed, NoVal, NoErr, <<>>)>>]
    /\ UNCHANGED <<cellVars, histVars, waitVars, streamVars, queueVars, queueHist, schedVars,
                   fLog, taskLog,
                   coVars, m_currentFuture, m_pAsyncOpFuture, m_remaining, callLog,
                   escaped>>

\* F.thenAsync(pool, func)
CallThenAsync(t) ==
    CallOperator(t, "ContinuationAsyncTaskFromOneFuture", FALSE, FALSE,
                 ThenAsyncCb("R", "pool"))

\* F.thenCatchAllAsync(pool, func)
CallThenCatchAllAsync(t) ==
    CallOperator(t, "ContinuationTaskAsyncCatchAll", FALSE, FALSE, CatchAllAsyncCb("R"))

(***************************************************************************)
(* whenAll, whenAllFromFutures, whenAllFromArrayOfFutures on the inputs F  *)
(* and G: ContinuationTask and ContinuationTaskArray; runAsync: ReadyTask. *)
(* The task's cell is R.                                                   *)
(***************************************************************************)
\* the futures passed to whenAll
Inputs == <<"F", "G">>
InputCells == {Inputs[i] : i \in DOMAIN Inputs}

\* what the task can be: whenAll(func, F, G) hands func the values and
\* whenAllFromFutures the futures, both as a ContinuationTask;
\* whenAllFromArrayOfFutures hands func the vector of futures; runAsync calls
\* func with nothing. func returns R, which can be void.
WhenAllClasses == {"ContinuationTask", "ContinuationTaskArray"}
TaskVariants ==
    {[class |-> "ContinuationTask", void |-> v, byValue |-> b, futures |-> Inputs] :
        v, b \in BOOLEAN}
        \cup {[class |-> "ContinuationTaskArray", void |-> v, byValue |-> FALSE,
                futures |-> Inputs] : v \in BOOLEAN}
        \cup {[class |-> "ReadyTask", void |-> v, byValue |-> FALSE, futures |-> <<>>] :
                 v \in BOOLEAN}

\* a test that lets every input start the task
IsLastInput_Any(old) == old >= 1

\* onFutureCompleted: if (old == 1)
IsLastInput(old) == old = 1

\* onFutureCompleted(pThis): unsigned old = m_remaining.fetch_sub(1), one
\* atomic step; the callback that takes the counter from 1 to 0 enqueues the
\* task that calls func. The counter starts at the number of inputs and one
\* callback is attached to each, so it is never decremented at 0.
WhenAllOnFutureCompleted(t) ==
    /\ At(t, "wa_ofc")
    /\ LET r == Top(t).obj
           cb == Top(t).cb
           old == m_remaining
       IN /\ m_remaining' = old - 1
          /\ stack' = [stack EXCEPT ![t] =
                          IF IsLastInput(old)
                          THEN Replaced(t, Frame("enqueue_lock", cb.sch, WhenAllTask(r),
                                                 not_completed, NoVal, NoErr, <<>>))
                          ELSE Popped(t)]
    /\ UNCHANGED <<cellVars, besidesTask, taskClass, m_currentFuture, m_pAsyncOpFuture,
                   callLog, escaped>>

\* what func can do: return (a value, or nothing when R is void), or throw
FuncResults(void) ==
    {RetValue(v) : v \in (IF void THEN {NoVal} ELSE Values)}
        \cup {Throws(e) : e \in Errors}

\* the frame in which func runs: computeAndSet and computeAndSetWithTuple
\* of PromiseFuturePair<T> and computeAndSet of PromiseFuturePair<void> call
\* it in a try block; computeAndSetWithTuple of PromiseFuturePair<void>,
\* which is noexcept, calls it with no try block
TaskFramePc(cls) ==
    IF cls.class = "ContinuationTask" /\ cls.void THEN "wa_task" ELSE "wa_try"

\* the call of func by thread t from the frame at pc: what it returns is set
\* on the cell r, what it throws unwinds
CallFunc(t, r, pc) ==
    \E out \in FuncResults(taskClass.void) :
        /\ callLog' = Append(callLog, UserCall("func", r, t, NoVal, NoErr, out))
        /\ stack' = [stack EXCEPT ![t] =
                        Append(Replaced(t, [Top(t) EXCEPT !.pc = pc]),
                               IF out.st = exception
                               THEN ThrowFrame(out.err)
                               ELSE Frame("set_store", r, NoCb, completed_normally,
                                          out.val, NoErr, <<>>))]

\* the task enqueued by onFutureCompleted, a noexcept lambda:
\* computeAndSetWithTuple(m_func, m_futures), or computeAndSet(m_func,
\* m_futures) for the array. whenAll's m_func is fwdFunc, which calls
\* ff.get() on every input before func: get() waits for the input and
\* rethrows the exception of a failed one (of whichever failed input is
\* evaluated first). The other variants call func on the futures as they
\* are.
WhenAllTaskCall(t) ==
    /\ At(t, "wa_call")
    /\ LET r == Top(t).obj
           pc == TaskFramePc(taskClass)
           failed == {c \in InputCells : m_state[c] = exception}
       IN IF taskClass.byValue
          THEN /\ \A c \in InputCells : m_state[c] # not_completed
               /\ IF failed # {}
                  THEN /\ \E c \in failed :
                            stack' = [stack EXCEPT ![t] =
                                         Append(Replaced(t, [Top(t) EXCEPT !.pc = pc]),
                                                ThrowFrame(m_exception[c]))]
                       /\ UNCHANGED callLog
                  ELSE CallFunc(t, r, pc)
          ELSE CallFunc(t, r, pc)
    /\ UNCHANGED <<cellVars, besidesTask, taskClass, m_currentFuture, m_pAsyncOpFuture,
                   m_remaining, escaped>>

\* ReadyTask::execute(): computeAndSet(std::move(m_func))
ReadyTaskExecute(t) ==
    /\ At(t, "rt_call")
    /\ CallFunc(t, Top(t).obj, "rt_ret")
    /\ UNCHANGED <<cellVars, besidesTask, taskClass, m_currentFuture, m_pAsyncOpFuture,
                   m_remaining, escaped>>

\* computeAndSet / computeAndSetWithTuple and the task return
FuncTaskRet(t) ==
    /\ At(t, "wa_try") \/ At(t, "wa_task") \/ At(t, "rt_ret")
    /\ stack' = [stack EXCEPT ![t] = Popped(t)]
    /\ UNCHANGED <<cellVars, besidesTask, taskVars>>

WhenAllStep(t) ==
    \/ WhenAllOnFutureCompleted(t) \/ WhenAllTaskCall(t) \/ ReadyTaskExecute(t)
    \/ FuncTaskRet(t)

\* the calls of addSynchronousCallback that attach the task of cell r to its
\* inputs, last call first (the stack grows to the right):
\* attachContinuations<k> of ContinuationTask starts at the last future,
\* ContinuationTaskArray::attachContinuations at the first
AttachFrames(cls, r, s) ==
    LET add(c) == Frame("add_lock", c, WhenAllCb(r, s), not_completed, NoVal, NoErr, <<>>)
        n == Len(Inputs)
    IN IF cls = "ContinuationTask"
       THEN [i \in 1..n |-> add(Inputs[i])]
       ELSE [i \in 1..n |-> add(Inputs[n + 1 - i])]

\* a thread calls whenAll(pool, func, F, G) or one of its variants, or
\* runAsync(pool, func): the task is made, with m_remaining the number of
\* inputs, the callbacks are attached (the task is enqueued, for runAsync),
\* and the future of R is returned
CallWhenAll(t) ==
    /\ Idle(t)
    /\ thenCalls["R"] = "none"
    /\ thenCalls' = [thenCalls EXCEPT !["R"] = "calling"]
    /\ \E cls \in TaskVariants :
        /\ taskClass' = cls
        /\ IF cls.class = "ReadyTask"
           THEN /\ UNCHANGED m_remaining
                /\ stack' = [stack EXCEPT ![t] =
                    <<Frame("then_ret", "R", NoCb, not_completed, NoVal, NoErr, <<>>),
                      Frame("enqueue_lock", "pool", ReadyTask("R"), not_completed, NoVal,
                            NoErr, <<>>)>>]
           ELSE /\ m_remaining' = Len(Inputs)
                /\ stack' = [stack EXCEPT ![t] =
                    <<Frame("then_ret", "R", NoCb, not_completed, NoVal, NoErr, <<>>)>>
                        \o AttachFrames(cls.class, "R", "pool")]
    /\ UNCHANGED <<cellVars, histVars, waitVars, streamVars, queueVars, queueHist, schedVars,
                   fLog, taskLog,
                   coVars, m_currentFuture, m_pAsyncOpFuture, callLog, escaped>>

\* the vectors of futures handed to whenAllFromArrayOfFutures: none, F, F
\* and G
Vectors == {SubSeq(Inputs, 1, n) : n \in 0..Len(Inputs)}

\* a thread calls whenAllFromArrayOfFutures(pool, func, futures): the
\* ContinuationTaskArray is made with m_remaining(futures.size()),
\* attachContinuations registers one callback on each future of the vector,
\* the first future first, and the future of R is returned
CallWhenAllArray(t) ==
    /\ Idle(t)
    /\ thenCalls["R"] = "none"
    /\ thenCalls' = [thenCalls EXCEPT !["R"] = "calling"]
    /\ \E futures \in Vectors, v \in BOOLEAN :
        LET n == Len(futures)
            add(c) == Frame("add_lock", c, WhenAllCb("R", "pool"), not_completed, NoVal,
                            NoErr, <<>>)
        IN /\ taskClass' = [class |-> "ContinuationTaskArray", void |-> v, byValue |-> FALSE,
                            futures |-> futures]
           /\ m_remaining' = n
           /\ stack' = [stack EXCEPT ![t] =
                <<Frame("then_ret", "R", NoCb, not_completed, NoVal, NoErr, <<>>)>>
                    \o [i \in 1..n |-> add(futures[n + 1 - i])]]
    /\ UNCHANGED <<cellVars, histVars, waitVars, streamVars, queueVars, queueHist, schedVars,
                   fLog, taskLog,
                   coVars, m_currentFuture, m_pAsyncOpFuture, callLog, escaped>>

(***************************************************************************)
(* Future<T>::thenCatchAll(pExecutor, func): ContinuationTaskCatchAll.     *)
(* The task's cell is R, its antecedent F.                                 *)
(***************************************************************************)
\* onFutureCompleted(): the value of a normally completed antecedent is
\* moved to the task's cell by setFromOtherFutureMove; otherwise the
\* antecedent's exception is captured by the task that calls the handler,
\* which is enqueued on the executor
CatchAllOnFutureCompleted(t) ==
    /\ At(t, "ca_ofc")
    /\ LET r == Top(t).obj
           cb == Top(t).cb
           f == m_future(r)
       IN IF isCompletedNormally(m_state[f])
          THEN stack' = [stack EXCEPT ![t] = Replaced(t, SetFromOtherFutureMove(r, f))]
          ELSE /\ m_state[f] # not_completed
               /\ stack' = [stack EXCEPT ![t] =
                               Replaced(t, Frame("enqueue_lock", cb.sch,
                                                 CatchAllTask(r, m_exception[f]),
                                                 not_completed, NoVal, NoErr, <<>>))]
    /\ UNCHANGED <<cellVars, besidesTask, taskVars>>

\* the enqueued task: computeAndSet(std::move(m_func), pException), which
\* calls the handler on the captured exception in a try block
CatchAllTaskCall(t) ==
    /\ At(t, "ca_call")
    /\ \E out \in FuncResults(FALSE) :
        /\ callLog' = Append(callLog, UserCall("handler", Top(t).obj, t, NoVal,
                                               Top(t).cb.sch, out))
        /\ stack' = [stack EXCEPT ![t] =
                        Append(Replaced(t, [Top(t) EXCEPT !.pc = "ca_ret"]),
                               IF out.st = exception
                               THEN ThrowFrame(out.err)
                               ELSE Frame("set_store", Top(t).obj, NoCb,
                                          completed_normally, out.val, NoErr, <<>>))]
    /\ UNCHANGED <<cellVars, besidesTask, taskClass, m_currentFuture, m_pAsyncOpFuture,
                   m_remaining, escaped>>

\* computeAndSet and the task return
CatchAllTaskRet(t) ==
    /\ At(t, "ca_ret")
    /\ stack' = [stack EXCEPT ![t] = Popped(t)]
    /\ UNCHANGED <<cellVars, besidesTask, taskVars>>

CatchAllStep(t) ==
    \/ CatchAllOnFutureCompleted(t) \/ CatchAllTaskCall(t) \/ CatchAllTaskRet(t)

\* F.thenCatchAll(pool, func)
CallThenCatchAll(t) ==
    CallOperator(t, "ContinuationTaskCatchAll", FALSE, FALSE, CatchAllCb("R", "pool"))

(***************************************************************************)
(* F.then(pool, [](T x) { return x; }): the function passed is identity.   *)
(***************************************************************************)
\* a get() that returns a value-initialised T instead of the stored value
get_Default(c) == NoVal

\* PromiseFuturePair<T>::get() on a cell completed normally: m_val.value()
get(c) == m_val[c]

\* the enqueued task of then when func returns its argument:
\* computeAndSet(std::move(m_func), m_future.get()) sets the value get()
\* returned, and sets the exception get() rethrows when F has failed
ComputeAndSetIdentity(t) ==
    /\ At(t, "cas_call")
    /\ LET r == Top(t).obj
           f == m_future(r)
       IN /\ m_state[f] # not_completed
          /\ IF m_state[f] = completed_normally
             THEN /\ fLog' = Append(fLog, [task |-> r, thread |-> t, arg |-> m_val[f]])
                  /\ stack' = [stack EXCEPT ![t] =
                                  Append(Replaced(t, [Top(t) EXCEPT !.pc = "task_ret"]),
                                         Frame("set_store", r, NoCb, completed_normally,
                                               get(f), NoErr, <<>>))]
             ELSE /\ UNCHANGED fLog
                  /\ stack' = [stack EXCEPT ![t] =
                                  Append(Replaced(t, [Top(t) EXCEPT !.pc = "task_ret"]),
                                         Frame("exc_store", r, NoCb, exception, NoVal,
                                               m_exception[f], <<>>))]
    /\ UNCHANGED <<schedVars, taskLog, thenCalls, runLog, coVars, outsideSched>>

(***************************************************************************)
(* PromiseFuturePairBase::wait().                                          *)
(***************************************************************************)
\* the call in progress of thread t recorded in waitLog
OpenCall(t) ==
    CHOOSE i \in DOMAIN waitLog : waitLog[i].thread = t /\ ~waitLog[i].returned
\* the record of a call, and waitLog with the call of thread t returned,
\* the state of its cell as it is at the return
WaitCall(op, t, c) ==
    [op |-> op, thread |-> t, cell |-> c, returned |-> FALSE, blocked |-> FALSE,
     pushed |-> FALSE, seen |-> not_completed, pending |-> {}]
ReturnedCall(t, c) ==
    [waitLog EXCEPT ![OpenCall(t)].returned = TRUE, ![OpenCall(t)].seen = m_state[c]]

\* wait: while (m_state == State::not_completed) m_cv.wait(lck)
StillPending(st) == st = not_completed

\* wait: if (m_state != State::not_completed) return, read without the lock
WaitCheck(t) ==
    /\ At(t, "wait_check")
    /\ IF m_state[Top(t).obj] # not_completed
       THEN /\ stack' = [stack EXCEPT ![t] = Popped(t)]
            /\ waitLog' = ReturnedCall(t, Top(t).obj)
       ELSE /\ stack' = [stack EXCEPT ![t] =
                            Replaced(t, [Top(t) EXCEPT !.pc = "wait_lock"])]
            /\ UNCHANGED waitLog
    /\ UNCHANGED <<cellVars, histVars, queueVars, queueHist, schedVars, schedHist, coVars,
                   taskVars, cell_cv, fw_mtx, m_futures, m_cond, streamVars>>

\* wait: std::unique_lock<std::mutex> lck(m_mtx), and m_cv.wait(lck)
\* returning with the lock held again after the thread was woken
WaitLock(t) ==
    /\ At(t, "wait_lock") \/ (At(t, "wait_blocked") /\ t \notin cell_cv[Top(t).obj])
    /\ CanLock(t, Top(t).obj)
    /\ m_mtx' = [m_mtx EXCEPT ![Top(t).obj] = t]
    /\ stack' = [stack EXCEPT ![t] = Replaced(t, [Top(t) EXCEPT !.pc = "wait_loop"])]
    /\ UNCHANGED <<m_state, m_val, m_exception, m_continuations, movedFrom, histVars,
                   queueVars, queueHist, schedVars, schedHist, coVars, taskVars, waitVars,
                   streamVars>>

\* wait, with the lock held: the test of the loop. While the cell is not
\* completed, m_cv.wait(lck) releases the lock and blocks the thread in one
\* atomic step; otherwise wait returns, releasing the lock.
WaitLoop(t) ==
    /\ At(t, "wait_loop")
    /\ LET c == Top(t).obj
       IN /\ m_mtx' = [m_mtx EXCEPT ![c] = NoThread]
          /\ IF StillPending(m_state[c])
             THEN /\ cell_cv' = [cell_cv EXCEPT ![c] = @ \cup {t}]
                  /\ waitLog' = [waitLog EXCEPT ![OpenCall(t)].blocked = TRUE]
                  /\ stack' = [stack EXCEPT ![t] =
                                  Replaced(t, [Top(t) EXCEPT !.pc = "wait_blocked"])]
             ELSE /\ stack' = [stack EXCEPT ![t] = Popped(t)]
                  /\ waitLog' = ReturnedCall(t, c)
                  /\ UNCHANGED cell_cv
    /\ UNCHANGED <<m_state, m_val, m_exception, m_continuations, movedFrom, histVars,
                   queueVars, queueHist, schedVars, schedHist, coVars, taskVars, fw_mtx,
                   m_futures, m_cond, streamVars>>

\* m_cv.wait(lck) may wake with no notification (a spurious wake-up)
WaitSpurious(t) ==
    /\ At(t, "wait_blocked")
    /\ t \in cell_cv[Top(t).obj]
    /\ cell_cv' = [cell_cv EXCEPT ![Top(t).obj] = @ \ {t}]
    /\ UNCHANGED <<cellVars, stack, histVars, queueVars, queueHist, schedVars, schedHist,
                   coVars, taskVars, fw_mtx, m_futures, m_cond, streamVars, waitLog>>

\* the steps of wait that the thread takes by itself
WaitStep(t) == WaitCheck(t) \/ WaitLock(t) \/ WaitLoop(t)

\* a thread calls F.wait(), once
CallWait(t) ==
    /\ t \in Registrars
    /\ Idle(t)
    /\ \A i \in DOMAIN waitLog : waitLog[i].thread # t
    /\ waitLog' = Append(waitLog, WaitCall("wait", t, "F"))
    /\ stack' = [stack EXCEPT ![t] =
                    <<Frame("wait_check", "F", NoCb, not_completed, NoVal, NoErr, <<>>)>>]
    /\ UNCHANGED <<cellVars, histVars, queueVars, queueHist, schedVars, schedHist, coVars,
                   taskVars, cell_cv, fw_mtx, m_futures, m_cond, streamVars>>

(***************************************************************************)
(* FutureWaiter: add, waitAll, onFutureComplete.                           *)
(***************************************************************************)
\* what the actions of the waiter leave alone besides its own fields
besidesWaiter == <<cellVars, histVars, queueVars, queueHist, schedVars, schedHist, coVars,
                   taskVars, cell_cv, streamVars>>

\* the futures that add has pushed on m_futures so far
Pushed == {waitLog[i].cell : i \in {j \in DOMAIN waitLog : waitLog[j].pushed}}

\* the list without the element the iterator of future c points to
Erase(futures, c) ==
    LET keep(x) == x # c IN SelectSeq(futures, keep)

\* a waiter that never signals m_cond
ShouldNotify_Never(futures) == FALSE

\* onFutureComplete: if(m_futures.empty()) m_cond.notify_all()
ShouldNotify(futures) == futures = <<>>

\* add, waitAll, onFutureComplete: std::unique_lock<std::mutex> lck(m_mtx);
\* also m_cond.wait returning with the lock held after the thread was woken
WaiterLock(t) ==
    /\ \/ At(t, "fw_add_lock") \/ At(t, "fw_ofc_lock") \/ At(t, "fw_wait_lock")
       \/ (At(t, "fw_wait_blocked") /\ t \notin m_cond)
    /\ fw_mtx = NoThread
    /\ fw_mtx' = t
    /\ stack' = [stack EXCEPT ![t] =
                    Replaced(t, [Top(t) EXCEPT !.pc =
                        CASE Top(t).pc = "fw_add_lock" -> "fw_add_push"
                          [] Top(t).pc = "fw_ofc_lock" -> "fw_ofc_erase"
                          [] OTHER -> "fw_wait_test"])]
    /\ UNCHANGED <<besidesWaiter, m_futures, m_cond, waitLog>>

\* add: m_futures.push_front(future); it = m_futures.begin(); lck.unlock();
\* and then future.addSynchronousCallback([this,it](){onFutureComplete(it);})
WaiterAddPush(t) ==
    /\ At(t, "fw_add_push")
    /\ LET c == Top(t).obj
       IN /\ m_futures' = <<c>> \o m_futures
          /\ waitLog' = [waitLog EXCEPT ![OpenCall(t)].pushed = TRUE]
          /\ stack' = [stack EXCEPT ![t] =
                          Append(Replaced(t, [Top(t) EXCEPT !.pc = "fw_add_ret"]),
                                 Frame("add_lock", c, WaiterCb(c), not_completed, NoVal,
                                       NoErr, <<>>))]
    /\ fw_mtx' = NoThread
    /\ UNCHANGED <<besidesWaiter, m_cond>>

\* add returns
WaiterAddRet(t) ==
    /\ At(t, "fw_add_ret")
    /\ stack' = [stack EXCEPT ![t] = Popped(t)]
    /\ waitLog' = ReturnedCall(t, Top(t).obj)
    /\ UNCHANGED <<besidesWaiter, fw_mtx, m_futures, m_cond>>

\* onFutureComplete(it): m_futures.erase(it); if(m_futures.empty())
\* m_cond.notify_all(); and the lock is released on return
WaiterErase(t) ==
    /\ At(t, "fw_ofc_erase")
    /\ m_futures' = Erase(m_futures, Top(t).obj)
    /\ m_cond' = IF ShouldNotify(m_futures') THEN NotifyAll(m_cond) ELSE m_cond
    /\ fw_mtx' = NoThread
    /\ stack' = [stack EXCEPT ![t] = Popped(t)]
    /\ UNCHANGED <<besidesWaiter, waitLog>>

\* waitAll: m_cond.wait(lck, pred), with the lock held: when m_futures is
\* empty waitAll returns, releasing the lock; otherwise the wait releases
\* the lock and blocks the thread, in one atomic step
WaiterTest(t) ==
    /\ At(t, "fw_wait_test")
    /\ fw_mtx' = NoThread
    /\ IF m_futures = <<>>
       THEN /\ stack' = [stack EXCEPT ![t] = Popped(t)]
            /\ waitLog' = [waitLog EXCEPT
                              ![OpenCall(t)].returned = TRUE,
                              ![OpenCall(t)].pending =
                                  {c \in Pushed : m_state[c] = not_completed}]
            /\ UNCHANGED m_cond
       ELSE /\ stack' = [stack EXCEPT ![t] =
                            Replaced(t, [Top(t) EXCEPT !.pc = "fw_wait_blocked"])]
            /\ waitLog' = [waitLog EXCEPT ![OpenCall(t)].blocked = TRUE]
            /\ m_cond' = m_cond \cup {t}
    /\ UNCHANGED <<besidesWaiter, m_futures>>

\* m_cond.wait may wake with no notification (a spurious wake-up)
WaiterSpurious(t) ==
    /\ At(t, "fw_wait_blocked")
    /\ t \in m_cond
    /\ m_cond' = m_cond \ {t}
    /\ UNCHANGED <<besidesWaiter, stack, fw_mtx, m_futures, waitLog>>

\* the steps of the waiter's functions that a thread takes by itself
WaiterStep(t) ==
    \/ WaiterLock(t) \/ WaiterAddPush(t) \/ WaiterAddRet(t) \/ WaiterErase(t)
    \/ WaiterTest(t)

\* a thread calls waiter.add(c) for a future c not added yet
CallWaiterAdd(t) ==
    /\ Idle(t)
    /\ \E c \in InputCells :
        /\ \A i \in DOMAIN waitLog : ~(waitLog[i].op = "add" /\ waitLog[i].cell = c)
        /\ waitLog' = Append(waitLog, WaitCall("add", t, c))
        /\ stack' = [stack EXCEPT ![t] =
                        <<Frame("fw_add_lock", c, NoCb, not_completed, NoVal, NoErr, <<>>)>>]
    /\ UNCHANGED <<besidesWaiter, fw_mtx, m_futures, m_cond>>

\* a thread calls waiter.waitAll(), once
CallWaitAll(t) ==
    /\ Idle(t)
    /\ \A i \in DOMAIN waitLog : waitLog[i].op # "waitAll"
    /\ waitLog' = Append(waitLog, WaitCall("waitAll", t, "-"))
    /\ stack' = [stack EXCEPT ![t] =
                    <<Frame("fw_wait_lock", "-", NoCb, not_completed, NoVal, NoErr, <<>>)>>]
    /\ UNCHANGED <<besidesWaiter, fw_mtx, m_futures, m_cond>>

(***************************************************************************)
(* Clients of the one-shot callbacks of the queue: the consumer installs   *)
(* counting callbacks for "value available", the producer for "slot        *)
(* available", while both go on enqueueing and dequeueing.                 *)
(***************************************************************************)
\* the counting callbacks installed so far, of one kind ("value" / "slot")
Installed(kind) == {n \in CbIds : regs[n].status # "none" /\ regs[n].path = kind}

\* the call that installs callback n has not returned yet
Installing(n) ==
    \E t \in Threads : \E i \in DOMAIN stack[t] :
        /\ stack[t][i].pc \in {"sov_lock", "sov_check", "sov_call", "sov_ret",
                               "sos_lock", "sos_check", "sos_call", "sos_ret"}
        /\ stack[t][i].cb = CountCb(n)

\* q.setOnValueAvailableOnceCallback(callback) with a fresh counting callback
InstallValue(t) ==
    /\ Idle(t)
    /\ Cardinality(Installed("value") \cup Installed("slot")) < MaxInstalls
    /\ regs' = [regs EXCEPT ![NextCb] = [status |-> "calling", thread |-> t,
                                         path |-> "value", atCall |-> not_completed]]
    /\ stack' = [stack EXCEPT ![t] = <<QueueFrame("sov_lock", CountCb(NextCb), NoEl)>>]
    /\ UNCHANGED <<cellVars, runLog, before, compl, waitVars, streamVars, queueVars, queueHist,
                   schedVars, schedHist, coVars, taskVars>>

\* q.setOnSlotAvailableOnceCallback(callback) with a fresh counting callback
InstallSlot(t) ==
    /\ Idle(t)
    /\ Cardinality(Installed("value") \cup Installed("slot")) < MaxInstalls
    /\ regs' = [regs EXCEPT ![NextCb] = [status |-> "calling", thread |-> t,
                                         path |-> "slot", atCall |-> not_completed]]
    /\ stack' = [stack EXCEPT ![t] = <<QueueFrame("sos_lock", CountCb(NextCb), NoEl)>>]
    /\ UNCHANGED <<cellVars, runLog, before, compl, waitVars, streamVars, queueVars, queueHist,
                   schedVars, schedHist, coVars, taskVars>>

\* the producer calls q.enqueue(v): its next Item, or the Eof that ends the stream
OnceEnqueue(t) ==
    /\ Idle(t)
    /\ ~prod.closed
    /\ \E v \in {makeItem(n) : n \in {prod.next} \cap (1 .. MaxOnceItems)}
               \cup {makeEof(NoVal)} :
        /\ stack' = [stack EXCEPT ![t] = <<QueueFrame("enq_lock", NoCb, v)>>]
        /\ prod' = [prod EXCEPT !.busy = TRUE, !.closed = ~isItem(v)]
    /\ UNCHANGED <<queueVars, enqLog, deqLog, pops, cons, runLog, outsideQueue>>

\* the consumer calls q.dequeue(), often enough to take every Item and the Eof
OnceDequeue(t) ==
    /\ Idle(t)
    /\ cons.calls < MaxOnceItems + 1
    /\ stack' = [stack EXCEPT ![t] = <<QueueFrame("deq_lock", NoCb, NoEl)>>]
    /\ cons' = [cons EXCEPT !.busy = TRUE, !.calls = @ + 1]
    /\ UNCHANGED <<queueVars, enqLog, deqLog, pops, prod, runLog, outsideQueue>>

(***************************************************************************)
(* Stream coroutines: StreamSourcePromiseType (the promise is the queue),  *)
(* QueueYieldAwaiter for co_yield, StreamSourceElementAwaiter for          *)
(* co_await on a stream, and the coroutines of the tests:                  *)
(*   gen3(si, v):  co_await si; for (i < 3) co_yield v + i; co_return;     *)
(*   genCompound(si, gen1, gen2): co_await si; while (true) {              *)
(*       v1 = co_await gen1; if (v1.isItem()) co_yield v1.item();          *)
(*       else co_return;  the same with gen2 }                             *)
(* Streams A and B are generators, stream C is the compound of A and B.    *)
(* Each section of code that runs with m_mutex held is one step.           *)
(***************************************************************************)
Streams == {"A", "B", "C"}
Generators == {"A", "B"}
\* the number of elements a generator yields: for(int i=0 ; i<3 ; ++i)
GenCount == 3
\* StreamSourcePromiseType is default constructed: size_t queueSize=1
PromiseQueueSize == 1
\* gen3(.., 10) and gen3void(.., 20)
FirstValue(g) == IF g = "A" THEN 10 ELSE 20
\* a compound that awaits gen1 in every turn
Src_OnlyFirst(i) == "A"

\* the stream the compound awaits in its i-th turn: gen1, gen2, gen1, ...
Src(i) == IF i % 2 = 0 THEN "A" ELSE "B"
\* the body does not throw: a turn of the loop that never comes
NoThrow == GenCount + 1
\* the thread of the test body; the other threads are the pool's workers
MainThread == "t1"

\* the queue of a stream coroutine, with its reference count (m_refcount{0})
NewPromise ==
    [m_queue |-> <<>>, m_valueAvailableCallback |-> NoCb, m_slotAvailableCallback |-> NoCb,
     m_refcount |-> 0]
\* the coroutine: destroyed counts the calls of m_handle.destroy(), holders
\* are the owners of a StreamSource of it (the test, or the frame of the
\* compound, whose parameters gen1 and gen2 are StreamSources)
NewHandle ==
    [status |-> "new", pc |-> "sc_start", i |-> 0, v |-> NoEl, waited |-> FALSE,
     start |-> "sameThread", throwAt |-> NoThrow, destroyed |-> 0, holders |-> {}]

\* removeRef on the queue of stream coroutine g by the owner who (or by
\* final_suspend, for the reference the promise's constructor took), on the
\* queues pr and coroutines hd. dispose is m_handle.destroy(): the frame of
\* g is destroyed and, with it, the StreamSources it holds, each of which
\* calls removeRef on its queue.
RECURSIVE RemoveRef(_, _, _, _)
RemoveRef(pr, hd, g, who) ==
    LET old == pr[g].m_refcount
        pr1 == [pr EXCEPT ![g].m_refcount = old - 1]
        hd1 == [hd EXCEPT ![g].holders = @ \ {who}]
        hd2 == [hd1 EXCEPT ![g].destroyed = @ + 1]
        held == {x \in DOMAIN hd : g \in hd[x].holders}
        RECURSIVE ReleaseAll(_, _)
        ReleaseAll(st, xs) ==
            IF xs = {} THEN st
            ELSE LET x == CHOOSE y \in xs : TRUE
                 IN ReleaseAll(RemoveRef(st.promise, st.handle, x, g), xs \ {x})
    IN IF ShouldDispose(old)
       THEN ReleaseAll([promise |-> pr1, handle |-> hd2], held)
       ELSE [promise |-> pr1, handle |-> hd1]

besidesStream == <<cellVars, histVars, queueVars, queueHist, schedVars, schedHist, coVars,
                   taskVars, waitVars>>
besidesStreamAndRunLog == <<cellVars, regs, before, compl, queueVars, queueHist, schedVars,
                            schedHist, coVars, taskVars, waitVars>>

\* the frame of the body of stream coroutine g, or of a call on the queue g
StreamFrame(pc, g) == Frame(pc, g, NoCb, not_completed, NoVal, NoErr, <<>>)
\* the top frame of thread t goes to pc
Goto(t, pc) == [stack EXCEPT ![t] = Replaced(t, [Top(t) EXCEPT !.pc = pc])]

\* a test of the slot that always finds one
isSlotAvailable_Always(q) == TRUE

\* isSlotAvailable: lck(m_mutex); return m_queue.size() < m_queueSize
isSlotAvailable(q) == Len(q) < PromiseQueueSize

\* isValueAvailable: lck(m_mutex); return !m_queue.empty()
isValueAvailable(q) == q # <<>>

\* an exception that is reported as the end of the stream
unhandled_exception_AsEof(e) == makeEof(NoVal)

\* unhandled_exception: this->enqueue(makeException(std::current_exception()))
unhandled_exception(e) == makeException(e)

\* return_value / return_void: this->enqueue(makeEof(..))
return_value(v) == makeEof(v)

\* where the body is after co_await schedulingInfo
BodyPc(g) == IF g \in Generators THEN "g_loop" ELSE "c_ready"

\* co_await schedulingInfo, SwitchThreadAwaiter: await_ready is startInfo ==
\* sameThread && !scheduler->initSwitchThread(); if not ready the coroutine
\* is suspended and await_suspend calls markRunnable(thisHandler, false)
StreamAwaitSched(t) ==
    /\ At(t, "sc_start")
    /\ LET g == Top(t).obj IN
        IF handle[g].start = "sameThread" /\ ~initSwitchThread(t, "pool")
        THEN /\ stack' = Goto(t, BodyPc(g))
             /\ UNCHANGED handle
        ELSE /\ handle' = [handle EXCEPT ![g].status = "suspended", ![g].pc = BodyPc(g)]
             /\ stack' = [stack EXCEPT ![t] =
                            Replaced(t, Frame("mr_lock", "pool", StreamHandleCb(g),
                                              not_completed, NoVal, NoErr, <<>>))]
    /\ UNCHANGED <<besidesStream, promise, streamLog>>

\* h.resume(): the coroutine goes on from where it was suspended
StreamResume(t) ==
    /\ At(t, "sc_resume")
    /\ LET g == Top(t).obj IN
        IF handle[g].status = "suspended"
        THEN /\ handle' = [handle EXCEPT ![g].status = "running"]
             /\ stack' = [stack EXCEPT ![t] = Replaced(t, StreamFrame(handle[g].pc, g))]
             /\ UNCHANGED streamLog
        ELSE /\ streamLog' = [streamLog EXCEPT !.fault = @ \cup {g}]
             /\ stack' = [stack EXCEPT ![t] = Popped(t)]
             /\ UNCHANGED handle
    /\ UNCHANGED <<besidesStream, promise>>

\* the loop of a generator: the body throws, yields its next element, or
\* returns
GenLoop(t) ==
    /\ At(t, "g_loop")
    /\ LET g == Top(t).obj
           i == handle[g].i
       IN IF i = handle[g].throwAt
          THEN /\ stack' = Goto(t, "sc_unhandled")
               /\ UNCHANGED handle
          ELSE IF i < GenCount
          THEN /\ handle' = [handle EXCEPT ![g].v = makeItem(FirstValue(g) + i)]
               /\ stack' = Goto(t, "y_ready")
          ELSE /\ stack' = Goto(t, "sc_return")
               /\ UNCHANGED handle
    /\ UNCHANGED <<besidesStream, promise, streamLog>>

\* co_yield v, QueueYieldAwaiter::await_ready: m_pQueue->isSlotAvailable()
YieldReady(t) ==
    /\ At(t, "y_ready")
    /\ stack' = Goto(t, IF isSlotAvailable(promise[Top(t).obj].m_queue)
                        THEN "y_enqueue" ELSE "y_suspend")
    /\ UNCHANGED <<besidesStream, streamVars>>

\* QueueYieldAwaiter::await_suspend: the coroutine is suspended and
\* setOnSlotAvailableOnceCallback stores the lambda if the queue is full,
\* and otherwise calls it, which is markRunnable(thisHandler, true)
YieldSuspend(t) ==
    /\ At(t, "y_suspend")
    /\ LET g == Top(t).obj IN
        /\ handle' = [handle EXCEPT ![g].status = "suspended", ![g].pc = "y_enqueue",
                                    ![g].waited = TRUE]
        /\ IF Len(promise[g].m_queue) >= PromiseQueueSize
           THEN /\ promise' = [promise EXCEPT ![g].m_slotAvailableCallback = StreamResumeCb(g)]
                /\ stack' = [stack EXCEPT ![t] = Popped(t)]
                /\ UNCHANGED runLog
           ELSE /\ Invoke(t, StreamResumeCb(g), g, Popped(t))
                /\ UNCHANGED promise
    /\ UNCHANGED <<besidesStreamAndRunLog, streamLog>>

\* m_queue.push(std::move(v)); onValueEnqueued(lck) on the queue g: the
\* value callback, if there is one, is moved out to be called after unlock
StreamPush(t, g, v, callPc, nextPc) ==
    /\ promise' = [promise EXCEPT ![g].m_queue = push(@, v),
                                  ![g].m_valueAvailableCallback = NoCb]
    /\ streamLog' = [streamLog EXCEPT !.enq[g] = Append(@, v)]
    /\ stack' = [stack EXCEPT ![t] =
                    Replaced(t, IF promise[g].m_valueAvailableCallback # NoCb
                                THEN [Top(t) EXCEPT !.pc = callPc,
                                                    !.cb = promise[g].m_valueAvailableCallback]
                                ELSE [Top(t) EXCEPT !.pc = nextPc])]

\* QueueYieldAwaiter::await_resume: m_pQueue->enqueue(makeItem(m_val)). On a
\* full queue enqueue blocks the thread (cv.wait) until a slot is free.
YieldEnqueue(t) ==
    /\ At(t, "y_enqueue")
    /\ LET g == Top(t).obj IN
        IF Len(promise[g].m_queue) >= PromiseQueueSize
        THEN /\ streamLog.blocked # streamLog.blocked \cup {g}
             /\ streamLog' = [streamLog EXCEPT !.blocked = @ \cup {g}]
             /\ UNCHANGED <<promise, stack>>
        ELSE StreamPush(t, g, handle[g].v, "y_call", "y_done")
    /\ UNCHANGED <<besidesStream, handle>>

\* onValueEnqueued / onValueDequeued: callback(), after lck.unlock()
StreamCall(t) ==
    /\ \E pcs \in {<<"y_call", "y_done">>, <<"m_call", "sc_final">>, <<"dq_call", "dq_ret">>} :
        /\ At(t, pcs[1])
        /\ Invoke(t, Top(t).cb, Top(t).obj,
                  Replaced(t, [Top(t) EXCEPT !.pc = pcs[2], !.cb = NoCb]))
    /\ UNCHANGED <<besidesStreamAndRunLog, streamVars>>

\* after co_yield: the next turn of the loop
YieldDone(t) ==
    /\ At(t, "y_done")
    /\ handle' = [handle EXCEPT ![Top(t).obj].i = @ + 1, ![Top(t).obj].waited = FALSE]
    /\ stack' = Goto(t, BodyPc(Top(t).obj))
    /\ UNCHANGED <<besidesStream, promise, streamLog>>

\* co_return: return_value / return_void enqueues the Eof
StreamReturn(t) ==
    /\ At(t, "sc_return")
    /\ StreamPush(t, Top(t).obj, return_value(NoVal), "m_call", "sc_final")
    /\ UNCHANGED <<besidesStream, handle>>

\* an exception leaves the body: unhandled_exception enqueues it
StreamUnhandled(t) ==
    /\ At(t, "sc_unhandled")
    /\ StreamPush(t, Top(t).obj, unhandled_exception("e1"), "m_call", "sc_final")
    /\ UNCHANGED <<besidesStream, handle>>

\* final_suspend: the coroutine stays suspended at its end (removeRef) and
\* control returns to whoever resumed it
StreamFinal(t) ==
    /\ At(t, "sc_final")
    /\ LET g == Top(t).obj
           after == RemoveRef(promise, [handle EXCEPT ![g].status = "done"], g, "final_suspend")
       IN /\ handle' = after.handle
          /\ promise' = after.promise
    /\ stack' = [stack EXCEPT ![t] = Popped(t)]
    /\ UNCHANGED <<besidesStream, streamLog>>

\* co_await gen, StreamSourceElementAwaiter::await_ready:
\* m_pQueue->isValueAvailable()
AwaitReady(t) ==
    /\ At(t, "c_ready")
    /\ LET src == Src(handle[Top(t).obj].i) IN
        stack' = Goto(t, IF isValueAvailable(promise[src].m_queue)
                         THEN "c_resume" ELSE "c_suspend")
    /\ UNCHANGED <<besidesStream, streamVars>>

\* StreamSourceElementAwaiter::await_suspend: the coroutine is suspended and
\* setOnValueAvailableOnceCallback stores the lambda if the queue is empty,
\* and otherwise calls it, which is markRunnable(thisHandler, true)
AwaitSuspend(t) ==
    /\ At(t, "c_suspend")
    /\ LET g == Top(t).obj
           src == Src(handle[g].i)
       IN /\ handle' = [handle EXCEPT ![g].status = "suspended", ![g].pc = "c_resume"]
          /\ IF promise[src].m_queue = <<>>
             THEN /\ promise' = [promise EXCEPT
                                    ![src].m_valueAvailableCallback = StreamResumeCb(g)]
                  /\ stack' = [stack EXCEPT ![t] = Popped(t)]
                  /\ UNCHANGED runLog
             ELSE /\ Invoke(t, StreamResumeCb(g), g, Popped(t))
                  /\ UNCHANGED promise
    /\ UNCHANGED <<besidesStreamAndRunLog, streamLog>>

\* StreamSourceElementAwaiter::await_resume: return m_pQueue->dequeue()
AwaitResume(t) ==
    /\ At(t, "c_resume")
    /\ stack' = [stack EXCEPT ![t] =
                    Append(Replaced(t, [Top(t) EXCEPT !.pc = "c_got"]),
                           StreamFrame("dq_check", Src(handle[Top(t).obj].i)))]
    /\ UNCHANGED <<besidesStream, streamVars>>

\* if (v.isItem()) co_yield v.item(); else co_return;
AwaitGot(t) ==
    /\ At(t, "c_got")
    /\ IF isItem(Top(t).el)
       THEN /\ handle' = [handle EXCEPT ![Top(t).obj].v = Top(t).el]
            /\ stack' = Goto(t, "y_ready")
       ELSE /\ stack' = Goto(t, "sc_return")
            /\ UNCHANGED handle
    /\ UNCHANGED <<besidesStream, promise, streamLog>>

\* dequeue with the lock held and the queue q not empty: an Item is moved
\* out and popped, and the slot callback, if there is one, is moved out to
\* be called after unlock; a marker is copied and stays
StreamTakeFront(t, q) ==
    LET front == Head(promise[q].m_queue) IN
    IF popsFront(front)
    THEN /\ promise' = [promise EXCEPT ![q].m_queue = Tail(@),
                                       ![q].m_slotAvailableCallback = NoCb]
         /\ stack' = [stack EXCEPT ![t] =
                Replaced(t, IF promise[q].m_slotAvailableCallback # NoCb
                            THEN [Top(t) EXCEPT !.pc = "dq_call", !.el = makeFrom(front),
                                                !.cb = promise[q].m_slotAvailableCallback]
                            ELSE [Top(t) EXCEPT !.pc = "dq_ret", !.el = makeFrom(front)])]
    ELSE /\ stack' = [stack EXCEPT ![t] =
                        Replaced(t, [Top(t) EXCEPT !.pc = "dq_ret", !.el = makeFrom(front)])]
         /\ UNCHANGED promise

\* dequeue: lck(m_mutex); on an empty queue StreamSourcePromiseType's
\* waitForValueAvailable installs the lambda that calls markCompleted(&dummy),
\* unlocks and calls m_pScheduler->waitFor(&dummy); otherwise the front is
\* taken
StreamDequeue(t) ==
    /\ At(t, "dq_check")
    /\ LET q == Top(t).obj IN
        IF promise[q].m_queue = <<>>
        THEN /\ promise' = [promise EXCEPT
                                ![q].m_valueAvailableCallback = MarkCompletedCb(t, "pool")]
             /\ stack' = [stack EXCEPT ![t] =
                            Append(Replaced(t, [Top(t) EXCEPT !.pc = "dq_relock"]),
                                   Frame("wf_lock", "pool", NoCb, not_completed, NoVal,
                                         NoErr, <<>>))]
             /\ streamLog' = [streamLog EXCEPT !.fault =
                                IF Depth(t) > 1 THEN @ \cup {q} ELSE @]
        ELSE /\ StreamTakeFront(t, q)
             /\ UNCHANGED streamLog
    /\ UNCHANGED <<besidesStream, handle>>

\* waitForValueAvailable: lck.lock() after waitFor has returned, and the
\* front is taken
StreamRelock(t) ==
    /\ At(t, "dq_relock")
    /\ promise[Top(t).obj].m_queue # <<>>
    /\ StreamTakeFront(t, Top(t).obj)
    /\ UNCHANGED <<besidesStream, handle, streamLog>>

\* dequeue returns its element, to the awaiting coroutine or to the test
StreamDequeueRet(t) ==
    /\ At(t, "dq_ret")
    /\ IF Depth(t) > 1
       THEN /\ stack' = [stack EXCEPT ![t] =
                            Append(SubSeq(stack[t], 1, Depth(t) - 2),
                                   [stack[t][Depth(t) - 1] EXCEPT !.el = Top(t).el])]
            /\ UNCHANGED streamLog
       ELSE /\ stack' = [stack EXCEPT ![t] = Popped(t)]
            /\ streamLog' = [streamLog EXCEPT !.deq = Append(@, Top(t).el)]
    /\ UNCHANGED <<besidesStream, promise, handle>>

\* the steps of a generator and of dequeue
GenStep(t) ==
    \/ StreamAwaitSched(t) \/ StreamResume(t) \/ GenLoop(t)
    \/ YieldReady(t) \/ YieldSuspend(t) \/ YieldEnqueue(t) \/ StreamCall(t) \/ YieldDone(t)
    \/ StreamReturn(t) \/ StreamFinal(t)
    \/ StreamDequeue(t) \/ StreamRelock(t) \/ StreamDequeueRet(t)

\* the steps of co_await on a stream
AwaitStep(t) == AwaitReady(t) \/ AwaitSuspend(t) \/ AwaitResume(t) \/ AwaitGot(t)

\* the steps of the pool a stream coroutine needs
StreamPoolStep(t) ==
    \/ TfLock(t) \/ TfLoop(t) \/ TfWake(t) \/ TfRun(t)
    \/ MarkRunnableLock(t) \/ MarkRunnablePush(t)
    \/ MarkCompletedLock(t) \/ MarkCompletedInsert(t)
    \/ WfLock(t) \/ WfLoop(t) \/ WfWake(t) \/ WfRun(t)

\* the compound taking gen1 and gen2 by reference: the StreamSources stay
\* with the test, and the frame of the compound holds none
CallStream_ByReference(t, g, throws) ==
    /\ Idle(t)
    /\ handle[g].status = "new"
    /\ g \notin Generators => \A x \in Generators : "test" \in handle[x].holders
    /\ \E si \in CoroutineStart, th \in throws :
        handle' = [handle EXCEPT ![g].status = "running", ![g].start = si, ![g].throwAt = th,
                                 ![g].holders = {"test"}]
    /\ promise' = [promise EXCEPT ![g].m_refcount = 2]
    /\ stack' = [stack EXCEPT ![t] = <<StreamFrame("sc_start", g)>>]
    /\ UNCHANGED <<besidesStream, streamLog>>

\* the test calls the coroutine function of stream g, with
\* scheduler.sameThreadStart() or scheduler.parallelStart(): initial_suspend
\* being suspend_never, the body starts on the calling thread. throws are
\* the turns of the loop at which the body may throw.
CallStream(t, g, throws) ==
    /\ Idle(t)
    /\ handle[g].status = "new"
    /\ g \notin Generators => \A x \in Generators : "test" \in handle[x].holders
    /\ \E si \in CoroutineStart, th \in throws :
        handle' = [x \in Streams |->
                    IF x = g
                    THEN [handle[g] EXCEPT !.status = "running", !.start = si, !.throwAt = th,
                                           !.holders = {"test"}]
                    ELSE IF g \notin Generators
                    THEN [handle[x] EXCEPT !.holders = {g}]
                    ELSE handle[x]]
    /\ promise' = [promise EXCEPT ![g].m_refcount = 2]
    /\ stack' = [stack EXCEPT ![t] = <<StreamFrame("sc_start", g)>>]
    /\ UNCHANGED <<besidesStream, streamLog>>

\* the StreamSource of g that the test holds goes out of scope:
\* ~IntrusiveSharedPtr calls removeRef
DropStreamSource(t, g) ==
    /\ Idle(t)
    /\ "test" \in handle[g].holders
    /\ LET after == RemoveRef(promise, handle, g, "test") IN
        /\ handle' = after.handle
        /\ promise' = after.promise
    /\ UNCHANGED <<besidesStream, stack, streamLog>>

\* the test calls coro.dequeue() on stream g, until it has seen a marker
CallStreamDequeue(t, g) ==
    /\ Idle(t)
    /\ "test" \in handle[g].holders
    /\ IF streamLog.deq = <<>> THEN TRUE ELSE isItem(streamLog.deq[Len(streamLog.deq)])
    /\ stack' = [stack EXCEPT ![t] = <<StreamFrame("dq_check", g)>>]
    /\ UNCHANGED <<besidesStream, streamVars>>

(***************************************************************************)
(* The schedulers on their own: clients hand tasks (enqueue) and coroutine *)
(* handles (markRunnable) to a ThreadPool and to a OneThreadScheduler,     *)
(* call waitFor and runAllPending, and call markCompleted with the token   *)
(* of a waiter. A unit of work records that it ran and returns. The token  *)
(* of a waitFor is the waiting thread.                                     *)
(***************************************************************************)
WorkTask(n) == [kind |-> "count", n |-> n, obj |-> "task", sch |-> "-"]
WorkHandle(n) == [kind |-> "count", n |-> n, obj |-> "handle", sch |-> "-"]
PoolWorker == "t3"
\* the threads that call waitFor, the tokens of markCompleted
SchedWaiters == {"t1", "t3"}
\* the client that hands over the work
WorkSource == "t2"

\* the units of work handed to a scheduler so far: queued, taken, being
\* handed over, or run
HandedOver ==
    UNION {{m_tasks[s][i] : i \in DOMAIN m_tasks[s]} : s \in Scheds}
        \cup UNION {{m_runnableHandlers[s][i] : i \in DOMAIN m_runnableHandlers[s]} :
                        s \in Scheds}
        \cup UNION {{stack[t][i].cb : i \in DOMAIN stack[t]} : t \in Threads}
        \cup {runLog[i].cb : i \in DOMAIN runLog}

\* their number
WorkHandedOver ==
    Cardinality({w \in HandedOver : w.kind = "count" /\ w.obj \in {"task", "handle"}})

\* a client calls scheduler.enqueue(task) with the next task
CallEnqueueWork(t, s, max) ==
    /\ Idle(t)
    /\ \E n \in 1 .. max :
        /\ WorkTask(n) \notin HandedOver
        /\ \A k \in 1 .. n - 1 : WorkTask(k) \in HandedOver
        /\ stack' = [stack EXCEPT ![t] =
                        <<Frame("enqueue_lock", s, WorkTask(n), not_completed, NoVal, NoErr,
                                <<>>)>>]
    /\ UNCHANGED <<cellVars, histVars, queueVars, queueHist, schedVars, schedHist, coVars,
                   taskVars, waitVars, streamVars>>

\* a client calls scheduler.markRunnable(h) with the next handle
CallMarkRunnable(t, s, max) ==
    /\ Idle(t)
    /\ \E n \in 1 .. max :
        /\ WorkHandle(n) \notin HandedOver
        /\ \A k \in 1 .. n - 1 : WorkHandle(k) \in HandedOver
        /\ stack' = [stack EXCEPT ![t] =
                        <<Frame("mr_lock", s, WorkHandle(n), not_completed, NoVal, NoErr,
                                <<>>)>>]
    /\ UNCHANGED <<cellVars, histVars, queueVars, queueHist, schedVars, schedHist, coVars,
                   taskVars, waitVars, streamVars>>

\* a client calls scheduler.markCompleted(id) with the token of a waiter
CallMarkCompleted(t, s) ==
    /\ Idle(t)
    /\ \E w \in SchedWaiters :
        stack' = [stack EXCEPT ![t] =
                    <<Frame("mc_lock", s, MarkCompletedCb(w, s), not_completed, NoVal, NoErr,
                            <<>>)>>]
    /\ UNCHANGED <<cellVars, histVars, queueVars, queueHist, schedVars, schedHist, coVars,
                   taskVars, waitVars, streamVars>>

\* a client calls scheduler.waitFor(id) with its own token
CallSchedWaitFor(t, s) ==
    /\ Idle(t)
    /\ stack' = [stack EXCEPT ![t] =
                    <<Frame("wf_lock", s, NoCb, not_completed, NoVal, NoErr, <<>>)>>]
    /\ UNCHANGED <<cellVars, histVars, queueVars, queueHist, schedVars, schedHist, coVars,
                   taskVars, waitVars, streamVars>>

\* the steps of the schedulers
SchedStep(t) ==
    \/ EnqueueLock(t) \/ EnqueuePush(t)
    \/ TfLock(t) \/ TfLoop(t) \/ TfWake(t) \/ TfRun(t)
    \/ MarkRunnableLock(t) \/ MarkRunnablePush(t)
    \/ MarkCompletedLock(t) \/ MarkCompletedInsert(t)
    \/ RapEnter(t) \/ RapLock(t) \/ RapLoop(t) \/ RapRun(t)
    \/ WfLock(t) \/ WfLoop(t) \/ WfWake(t) \/ WfRun(t)

\* the steps in which a thread takes the scheduler's mutex
SchedLock(t) ==
    \/ EnqueueLock(t) \/ TfLock(t) \/ TfWake(t) \/ MarkRunnableLock(t)
    \/ MarkCompletedLock(t) \/ RapLock(t) \/ WfLock(t) \/ WfWake(t)

\* a thread calls coroFunc(s.sameThreadStart() or s.parallelStart(), f) with
\* s a ThreadPool or a OneThreadScheduler
CallCoroutineOn(t, s) ==
    /\ t \in OtsClients
    /\ Idle(t)
    /\ \E k \in Coros, si \in CoroutineStart :
        /\ coro[k].status = "new"
        /\ \A j \in Coros : j < k => coro[j].status # "new"
        /\ \A j \in Coros : j < k => "test" \in coro[j].holders
        /\ coro' = [j \in Coros |->
                    IF j = k
                    THEN [status |-> "running", pc |-> "co_await_sched", sched |-> "pool",
                          start |-> si, starter |-> t, fault |-> FALSE, refcount |-> 2,
                          destroyed |-> 0, holders |-> {"test"}]
                    ELSE IF j = k - 1
                    THEN [coro[j] EXCEPT !.refcount = @ + 1, !.holders = @ \cup {FrameOf(k)}]
                    ELSE coro[j]]
        /\ stack' = [stack EXCEPT ![t] =
                        <<Frame("co_await_sched", "co", SchedulingInfo(s), not_completed,
                                k, NoErr, <<>>)>>]
    /\ UNCHANGED <<schedVars, schedHist, runLog, segLog, outsideSched>>

(***************************************************************************)
(* ThreadPool::close and ~ThreadPool.                                      *)
(***************************************************************************)
TfPcs == {"tf_lock", "tf_loop", "tf_wait", "tf_run"}
\* the threads of m_threads that have not returned from threadFunc
LiveWorkers == {w \in Threads : Depth(w) > 0 /\ stack[w][1].pc \in TfPcs}

\* the test's thread lets the pool go out of scope: ~ThreadPool calls close()
\* and then joins the threads of m_threads
CallDestroy(t) ==
    /\ Idle(t)
    /\ stack' = [stack EXCEPT ![t] =
                    <<Frame("close_lock", "pool", NoCb, not_completed,
                            Cardinality(LiveWorkers), NoErr, <<>>)>>]
    /\ UNCHANGED <<cellVars, histVars, queueVars, queueHist, schedVars, schedHist, coVars,
                   taskVars, waitVars, streamVars>>

\* close: lck(m_mtx)
CloseLock(t) ==
    /\ At(t, "close_lock")
    /\ sched_mtx[Top(t).obj] = NoThread
    /\ sched_mtx' = [sched_mtx EXCEPT ![Top(t).obj] = t]
    /\ stack' = [stack EXCEPT ![t] = Replaced(t, [Top(t) EXCEPT !.pc = "close_set"])]
    /\ UNCHANGED <<m_tasks, m_runnableHandlers, m_finishedWaiters, m_isEnding, m_cv,
                   schedHist, runLog, coVars, outsideSched>>

\* close: m_isEnding = true; m_cv.notify_all(); return
CloseSet(t) ==
    /\ At(t, "close_set")
    /\ LET s == Top(t).obj IN
        /\ m_isEnding' = [m_isEnding EXCEPT ![s] = TRUE]
        /\ m_cv' = [m_cv EXCEPT ![s] = {}]
        /\ sched_mtx' = [sched_mtx EXCEPT ![s] = NoThread]
    /\ stack' = [stack EXCEPT ![t] = Replaced(t, [Top(t) EXCEPT !.pc = "join"])]
    /\ UNCHANGED <<m_tasks, m_runnableHandlers, m_finishedWaiters, schedHist, runLog,
                   coVars, outsideSched>>

\* ~ThreadPool: for(std::thread& t : m_threads) t.join(), and the destructor
\* returns; the thread that destroyed the pool does nothing more
Join(t) ==
    /\ At(t, "join")
    /\ LiveWorkers = {}
    /\ stack' = [stack EXCEPT ![t] = Replaced(t, [Top(t) EXCEPT !.pc = "destroyed"])]
    /\ UNCHANGED <<schedVars, schedHist, runLog, coVars, outsideSched>>

(***************************************************************************)
(* executeAsyncLoop(pExecutor, loopingPredicate, loopFunc, start) and      *)
(* carpal_private::auxLoop. The returned future's cell is S.               *)
(***************************************************************************)
\* the bound on the calls of the predicate that return true when the two
\* loops are compared
MaxSameIters == 1

\* the lambda auxLoop adds to the future b the body returned, and the task
\* that lambda enqueues
AuxCb(b) == [kind |-> "aux", n |-> 0, obj |-> b, sch |-> "pool"]
AuxTask(b) == [kind |-> "aux_task", n |-> 0, obj |-> b, sch |-> "pool"]

\* the calls of the user functions thenAsyncLoop (task R) and
\* executeAsyncLoop (cell S) have made
IsThenLoopCall(c) == c.task = "R"
IsExecLoopCall(c) == c.task = "S"
ThenLoopCalls == SelectSeq(callLog, IsThenLoopCall)
ExecLoopCalls == SelectSeq(callLog, IsExecLoopCall)

\* executeAsyncLoop is given the predicate and the body thenAsyncLoop was
\* given: its next call of a user function does what the call of the same
\* rank under thenAsyncLoop did
Replayed ==
    LET i == Len(ExecLoopCalls) + 1
    IN IF i <= Len(ThenLoopCalls) THEN {ThenLoopCalls[i]} ELSE {}

\* what the next call of the predicate does
PredicatePlays ==
    IF Replayed = {} THEN CondOutcomes \ {RetBool(TRUE)}
    ELSE {c.out : c \in {d \in Replayed : d.fn = "cond"}}

\* what the next call of the body does: it throws, or it returns a future
\* in the state fs
BodyPlays ==
    IF Replayed = {}
    THEN {[out |-> Throws(e), fs |-> CHOOSE s \in FutureStates({}, {}) : TRUE] : e \in Errors}
    ELSE {[out |-> c.out,
           fs |-> IF c.out.ret = NoCell THEN CHOOSE s \in FutureStates({}, {}) : TRUE
                  ELSE [st |-> m_state[c.out.ret], val |-> m_val[c.out.ret],
                        err |-> m_exception[c.out.ret]]] :
            c \in {d \in Replayed : d.fn = "body"}}

\* auxLoop: if (!loopingPredicate(start)) { ret->set(start); return; }, called
\* outside the try block
AuxPred(t) ==
    /\ At(t, "aux_pred")
    /\ LET cur == Top(t).obj IN
        \E out \in PredicatePlays :
            /\ callLog' = Append(callLog, UserCall("cond", "S", t, m_val[cur], NoErr, out))
            /\ stack' = [stack EXCEPT ![t] =
                CASE out.st = exception -> Append(stack[t], ThrowFrame(out.err))
                  [] out.st # exception /\ out.more ->
                        Replaced(t, [Top(t) EXCEPT !.pc = "aux_body"])
                  [] OTHER ->
                        Append(Replaced(t, [Top(t) EXCEPT !.pc = "aux_ret"]),
                               Frame("set_store", "S", NoCb, completed_normally, m_val[cur],
                                     NoErr, <<>>))]
    /\ UNCHANGED <<cellVars, besidesTask, taskClass, m_currentFuture, m_pAsyncOpFuture,
                   m_remaining, escaped>>

\* auxLoop: try { tmpResFuture = loopFunc(start);
\* tmpResFuture.addSynchronousCallback(...); } catch(...) {
\* ret->setException(std::current_exception()); }
AuxBody(t) ==
    /\ At(t, "aux_body")
    /\ LET cur == Top(t).obj
           b == NextInner
       IN \E play \in BodyPlays :
            IF play.out.st = exception
            THEN /\ callLog' = Append(callLog, UserCall("body", "S", t, m_val[cur], NoErr,
                                                        play.out))
                 /\ stack' = [stack EXCEPT ![t] =
                                 Append(Replaced(t, [Top(t) EXCEPT !.pc = "aux_ret"]),
                                        Frame("exc_store", "S", NoCb, exception, NoVal,
                                              play.out.err, <<>>))]
                 /\ UNCHANGED cellVars
            ELSE /\ callLog' = Append(callLog, UserCall("body", "S", t, m_val[cur], NoErr,
                                                        RetFuture(b)))
                 /\ MakeFuture(b, play.fs)
                 /\ stack' = [stack EXCEPT ![t] =
                                 Append(Replaced(t, [Top(t) EXCEPT !.pc = "aux_ret"]),
                                        Frame("add_lock", b, AuxCb(b), not_completed, NoVal,
                                              NoErr, <<>>))]
                 /\ UNCHANGED <<m_continuations, m_mtx, movedFrom>>
    /\ UNCHANGED <<besidesTask, taskClass, m_currentFuture, m_pAsyncOpFuture, m_remaining,
                   escaped>>

\* the callback on tmpResFuture: pExecutor->enqueue([...]() {...})
AuxEnqueue(t) ==
    /\ At(t, "aux_cb")
    /\ stack' = [stack EXCEPT ![t] =
                    Replaced(t, Frame("enqueue_lock", Top(t).cb.sch, AuxTask(Top(t).obj),
                                      not_completed, NoVal, NoErr, <<>>))]
    /\ UNCHANGED <<cellVars, besidesTask, taskVars>>

\* the enqueued task: if (tmpResFuture.isException())
\* ret->setException(tmpResFuture.getException()); else auxLoop(pExecutor,
\* loopingPredicate, loopFunc, tmpResFuture.get(), ret)
AuxTaskRun(t) ==
    /\ At(t, "aux_task")
    /\ LET cur == Top(t).obj IN
        /\ m_state[cur] # not_completed
        /\ stack' = [stack EXCEPT ![t] =
                        IF m_state[cur] = exception
                        THEN Append(Replaced(t, [Top(t) EXCEPT !.pc = "aux_ret"]),
                                    Frame("exc_store", "S", NoCb, exception, NoVal,
                                          m_exception[cur], <<>>))
                        ELSE Replaced(t, [Top(t) EXCEPT !.pc = "aux_pred"])]
    /\ UNCHANGED <<cellVars, besidesTask, taskVars>>

\* auxLoop, or the task, returns
AuxRet(t) ==
    /\ At(t, "aux_ret")
    /\ stack' = [stack EXCEPT ![t] = Popped(t)]
    /\ UNCHANGED <<cellVars, besidesTask, taskVars>>

AuxStep(t) ==
    \/ AuxPred(t) \/ AuxBody(t) \/ AuxEnqueue(t) \/ AuxTaskRun(t) \/ AuxRet(t)

\* a thread calls executeAsyncLoop(pool, cond, body, start) with the value
\* of F as start
CallExecuteAsyncLoop(t) ==
    /\ Idle(t)
    /\ thenCalls["S"] = "none"
    /\ thenCalls' = [thenCalls EXCEPT !["S"] = "calling"]
    /\ stack' = [stack EXCEPT ![t] =
                    <<Frame("then_ret", "S", NoCb, not_completed, NoVal, NoErr, <<>>),
                      Frame("aux_pred", "F", NoCb, not_completed, NoVal, NoErr, <<>>)>>]
    /\ UNCHANGED <<cellVars, histVars, waitVars, streamVars, queueVars, queueHist, schedVars,
                   fLog, taskLog, coVars, taskVars>>

InitCells ==
    /\ m_state = [c \in Cells |-> not_completed]
    /\ m_val = [c \in Cells |-> NoVal]
    /\ m_exception = [c \in Cells |-> NoErr]
    /\ m_continuations = [c \in Cells |-> <<>>]
    /\ m_mtx = [c \in Cells |-> NoThread]
    /\ movedFrom = [c \in Cells |-> FALSE]
    /\ cell_cv = [c \in Cells |-> {}]

InitHist ==
    /\ runLog = <<>>
    /\ regs = [n \in CbIds |-> [status |-> "none", thread |-> NoThread, path |-> "-",
                            atCall |-> not_completed]]
    /\ before = {}
    /\ compl = <<>>
    /\ waitLog = <<>>
    /\ fw_mtx = NoThread
    /\ m_futures = <<>>
    /\ m_cond = {}
    /\ promise = [g \in Streams |-> NewPromise]
    /\ handle = [g \in Streams |-> NewHandle]
    /\ streamLog = [enq |-> [g \in Streams |-> <<>>], deq |-> <<>>, blocked |-> {},
                    fault |-> {}]

Init ==
    /\ InitCells
    /\ InitHist
    /\ InitQueue({1})
    /\ InitSched
    /\ InitCo
    /\ InitTask
    /\ stack = [t \in Threads |-> <<>>]

\* the client keeps the contract: the cell is completed at most once
Next ==
    \E t \in Threads :
        \/ CellStep(t)
        \/ CallAdd(t)
        \/ CallSet(t, 1, Values)
        \/ CallSetException(t, 1, Errors)

Spec == Init /\ [][Next]_vars

\* the client breaks the contract: it may complete the cell a second time
DoubleThreads == {"t1", "t3"}
NextDouble ==
    \E t \in DoubleThreads :
        \/ CellStep(t)
        \/ CallAdd(t)
        \/ CallSet(t, 2, Values)
        \/ CallSetException(t, 2, Errors)

SpecDouble == Init /\ [][NextDouble]_vars

NextQueue ==
    \E t \in {ProducerThread, ConsumerThread} :
        \/ QueueStep(t)
        \/ QueueSpurious(t)
        \/ ProdEnqueue(t)
        \/ ProdSetOnSlotAvailable(t)
        \/ ConsDequeue(t)
        \/ ConsSetOnValueAvailable(t)

InitAnySize ==
    /\ InitCells
    /\ InitHist
    /\ InitQueue(1 .. MaxQueueSize)
    /\ InitSched
    /\ InitCo
    /\ InitTask
    /\ stack = [t \in Threads |-> <<>>]

SpecQueue == InitAnySize /\ [][NextQueue]_vars

\* the thread of the pool, at the start of threadFunc
PoolThread == "t2"
InitThen ==
    /\ InitCells
    /\ InitHist
    /\ InitQueue({1})
    /\ InitSched
    /\ InitCo
    /\ InitTask
    /\ stack = [t \in Threads |->
                  IF t = PoolThread
                  THEN <<Frame("tf_lock", "pool", NoCb, not_completed, NoVal, NoErr, <<>>)>>
                  ELSE <<>>]

NextThen ==
    \E t \in Threads :
        \/ CellStep(t)
        \/ PoolStep(t)
        \/ ThenStep(t)
        \/ CallThen(t)
        \/ CallSet(t, 1, Values)
        \/ CallSetException(t, 1, Errors)

SpecThen == InitThen /\ [][NextThen]_vars

NextOts ==
    \E t \in Threads :
        \/ CellStep(t)
        \/ OtsStep(t)
        \/ CoStep(t)
        \/ CallCoroutine(t)
        \/ CallRunAllPending(t)
        \/ CallWaitFor(t)
        \/ CallSet(t, 1, {1})
        \/ CallSetException(t, 1, {"e1"})

SpecOts == Init /\ [][NextOts]_vars

\* thenAsyncLoop called by one thread, the antecedent and the futures the
\* body returns completed by another
LoopCaller == "t1"
NextLoop ==
    \E t \in {LoopCaller} \cup Completers :
        \/ CellStep(t)
        \/ LoopStep(t)
        \/ ThenRet(t)
        \/ Unwind(t)
        \/ (t = LoopCaller /\ CallThenAsyncLoop(t))
        \/ (t \in Completers /\ CallComplete(t, "F", Outcomes(Values, Errors)))
        \/ (t \in Completers /\ CallCompleteInner(t, Outcomes(Values, Errors)))

SpecLoop == Init /\ [][NextLoop]_vars

\* thenAsync or thenCatchAllAsync called by one thread on the pool; the
\* antecedent and the future the user function returns are completed by a
\* third thread
NextAsync ==
    \E t \in Threads :
        \/ CellStep(t)
        \/ PoolStep(t)
        \/ AsyncStep(t)
        \/ ThenRet(t)
        \/ Unwind(t)
        \/ (t = LoopCaller /\ CallThenAsync(t))
        \/ (t = LoopCaller /\ CallThenCatchAllAsync(t))
        \/ (t \in Completers /\ CallComplete(t, "F", Outcomes(Values, Errors)))
        \/ (t \in Completers /\ CallCompleteInner(t, Outcomes(Values, Errors)))

SpecAsync == InitThen /\ [][NextAsync]_vars

\* whenAll (or a variant, or runAsync) called by one thread on the pool; the
\* input F is completed by a second thread and the input G by the calling
\* thread, before or after the call
NextWhenAll ==
    \E t \in Threads :
        \/ CellStep(t)
        \/ PoolStep(t)
        \/ WhenAllStep(t)
        \/ ThenRet(t)
        \/ Unwind(t)
        \/ (t = LoopCaller /\ CallWhenAll(t))
        \/ (t \in Completers /\ CallComplete(t, "F", Outcomes(Values, Errors)))
        \/ (t = LoopCaller /\ CallComplete(t, "G", Outcomes(Values, Errors)))

SpecWhenAll == InitThen /\ [][NextWhenAll]_vars

\* the steps of thread t inside a call of whenAllFromArrayOfFutures, a
\* completion of an input, or a task of the pool
VectorStep(t) ==
    \/ CellStep(t)
    \/ PoolStep(t)
    \/ WhenAllOnFutureCompleted(t)
    \/ WhenAllTaskCall(t)
    \/ FuncTaskRet(t)
    \/ ThenRet(t)
    \/ Unwind(t)

\* whenAllFromArrayOfFutures called by one thread on the pool with a vector
\* of no, one or two futures; F is completed by a second thread and G by
\* the calling thread, before or after the call
NextVector ==
    \E t \in Threads :
        \/ VectorStep(t)
        \/ (t = LoopCaller /\ CallWhenAllArray(t))
        \/ (t \in Completers /\ CallComplete(t, "F", Outcomes(Values, Errors)))
        \/ (t = LoopCaller /\ CallComplete(t, "G", Outcomes(Values, Errors)))

\* every thread goes on running, and a mutex is granted in the end; no
\* assumption on the clients' calls
SpecVector ==
    InitThen /\ [][NextVector]_vars /\ \A t \in Threads : SF_vars(VectorStep(t))

\* thenCatchAll called by one thread on the pool, the antecedent completed
\* by another; the caller keeps the returned future
NextCatchAll ==
    \E t \in Threads :
        \/ CellStep(t)
        \/ PoolStep(t)
        \/ CatchAllStep(t)
        \/ ThenRet(t)
        \/ Unwind(t)
        \/ (t = LoopCaller /\ CallThenCatchAll(t))
        \/ (t \in Completers /\ CallComplete(t, "F", Outcomes(Values, Errors)))

SpecCatchAll == InitThen /\ [][NextCatchAll]_vars

\* then called with the identity function by one thread, F completed by
\* another, before or after the call
NextThenIdentity ==
    \E t \in Threads :
        \/ CellStep(t)
        \/ PoolStep(t)
        \/ OnFutureCompleted(t)
        \/ ComputeAndSetIdentity(t)
        \/ TaskRet(t)
        \/ ThenRet(t)
        \/ CallThen(t)
        \/ CallSet(t, 1, Values)
        \/ CallSetException(t, 1, Errors)

SpecThenIdentity == InitThen /\ [][NextThenIdentity]_vars

\* the steps of set / setException and notify on a cell without callbacks
CompleteStep(t) ==
    \/ SetStore(t) \/ ExcStore(t)
    \/ NotifyLock(t) \/ NotifyMove(t) \/ NotifySetState(t) \/ NotifyRet(t)

\* two threads call wait() on F, a third completes it. Every thread goes on
\* with the call it is in; a spurious wake-up may happen but is never bound
\* to.
NextWait ==
    \E t \in Threads :
        \/ CompleteStep(t)
        \/ WaitCheck(t)
        \/ WaitLock(t)
        \/ WaitLoop(t)
        \/ WaitSpurious(t)
        \/ CallWait(t)
        \/ CallSet(t, 1, Values)
        \/ CallSetException(t, 1, Errors)

SpecWait ==
    /\ Init
    /\ [][NextWait]_vars
    /\ \A t \in Threads : WF_vars(CompleteStep(t) \/ WaitStep(t))

\* one thread adds the futures F and G to the waiter, a second calls
\* waitAll, a third completes the futures, in any order. Every thread goes
\* on with the call it is in; a spurious wake-up is never bound to happen.
WaiterOutcomes == Outcomes({1}, {"e1"})
NextWaiter ==
    \E t \in Threads :
        \/ CellStep(t)
        \/ WaiterLock(t)
        \/ WaiterAddPush(t)
        \/ WaiterAddRet(t)
        \/ WaiterErase(t)
        \/ WaiterTest(t)
        \/ WaiterSpurious(t)
        \/ (t = "t1" /\ CallWaiterAdd(t))
        \/ (t = "t2" /\ CallWaitAll(t))
        \/ (t \in Completers /\ \E c \in InputCells : CallComplete(t, c, WaiterOutcomes))

\* Every thread keeps running, and a thread that asks for m_mtx gets it in the end
\* although a waiter woken again and again takes and releases it in between
\* (strong fairness of the lock step); a spurious wake-up is never required.
SpecWaiter ==
    /\ Init
    /\ [][NextWaiter]_vars
    /\ \A t \in Threads : WF_vars(CellStep(t) \/ WaiterStep(t))
    /\ \A t \in Threads : SF_vars(WaiterLock(t))

\* The clients keep the contract of the one-shot slots: the consumer installs
\* a value callback or calls dequeue only while no value callback is armed,
\* the producer installs a slot callback or calls enqueue only while no slot
\* callback is armed.
NextOnce ==
    \/ \E t \in {ProducerThread, ConsumerThread} : QueueStep(t)
    \/ \E t \in {ProducerThread, ConsumerThread} : QueueSpurious(t)
    \/ (m_slotAvailableCallback = NoCb /\ OnceEnqueue(ProducerThread))
    \/ (m_valueAvailableCallback = NoCb /\ OnceDequeue(ConsumerThread))
    \/ (m_valueAvailableCallback = NoCb /\ InstallValue(ConsumerThread))
    \/ (m_slotAvailableCallback = NoCb /\ InstallSlot(ProducerThread))

SpecOnce == Init /\ [][NextOnce]_vars

\* The clients install callbacks whenever they like.
NextOnceAny ==
    \/ \E t \in {ProducerThread, ConsumerThread} : QueueStep(t)
    \/ \E t \in {ProducerThread, ConsumerThread} : QueueSpurious(t)
    \/ (m_slotAvailableCallback = NoCb /\ OnceEnqueue(ProducerThread))
    \/ (m_valueAvailableCallback = NoCb /\ OnceDequeue(ConsumerThread))
    \/ InstallValue(ConsumerThread)
    \/ InstallSlot(ProducerThread)

SpecOnceAny == Init /\ [][NextOnceAny]_vars

\* carpal::ThreadPool scheduler(n): the workers start in threadFunc
InitStream(workers) ==
    /\ InitCells
    /\ InitHist
    /\ InitQueue({1})
    /\ InitSched
    /\ InitCo
    /\ InitTask
    /\ stack = [t \in Threads |->
                  IF t \notin workers THEN <<>>
                  ELSE <<Frame("tf_lock", "pool", NoCb, not_completed, NoVal, NoErr, <<>>)>>]

\* One generator, whose body may throw at any turn of its loop or instead of
\* returning, and the test dequeueing from it.
NextGen ==
    \/ \E t \in Threads : GenStep(t)
    \/ \E t \in Threads : StreamUnhandled(t)
    \/ \E t \in Threads : StreamPoolStep(t)
    \/ CallStream(MainThread, "A", {NoThrow} \cup (0 .. GenCount))
    \/ CallStreamDequeue(MainThread, "A")

SpecGen == InitStream({"t2", "t3"}) /\ [][NextGen]_vars

\* The test AsyncGenerator_compound: two generators, the compound of them,
\* and the test dequeueing from the compound, on a pool of one worker: with
\* the test's thread, which runs coroutines inside waitFor, two threads run
\* the three coroutines. Every thread keeps running.
NextCompound ==
    \/ \E t \in Threads : GenStep(t)
    \/ \E t \in Threads : AwaitStep(t)
    \/ \E t \in Threads : StreamPoolStep(t)
    \/ \E g \in Streams :
        /\ \A h \in Streams : (h \in Generators /\ g = "C") => handle[h].status # "new"
        /\ g = "B" => handle["A"].status # "new"
        /\ CallStream(MainThread, g, {NoThrow})
    \/ CallStreamDequeue(MainThread, "C")

SpecCompound ==
    /\ InitStream({"t2"})
    /\ [][NextCompound]_vars
    /\ \A t \in Threads : WF_vars(GenStep(t) \/ AwaitStep(t) \/ StreamPoolStep(t))
    /\ WF_vars(NextCompound)

\* One scheduler and its clients: a ThreadPool with one worker, which starts
\* in threadFunc, or a OneThreadScheduler, which has no thread of its own.
\* One client hands over the work and marks tokens; the bound thread of the
\* OneThreadScheduler waits and runs what is pending; the third thread waits
\* unless it is the pool's worker.
InitSchedulers ==
    /\ InitCells
    /\ InitHist
    /\ InitQueue({1})
    /\ InitSched
    /\ InitCo
    /\ InitTask
    /\ \E workers \in {{}, {PoolWorker}} :
        stack = [t \in Threads |->
                   IF t \notin workers THEN <<>>
                   ELSE <<Frame("tf_lock", "pool", NoCb, not_completed, NoVal, NoErr, <<>>)>>]

\* the scheduler of the behaviour: the one whose threadFunc, or else whose
\* waitFor, the third thread is in
SchedInUse ==
    IF stack[PoolWorker] = <<>> THEN "ots" ELSE stack[PoolWorker][1].obj

\* the steps of the scheduler but those of markCompleted
WorkStep(t) ==
    \/ EnqueueLock(t) \/ EnqueuePush(t)
    \/ TfLock(t) \/ TfLoop(t) \/ TfWake(t) \/ TfRun(t)
    \/ MarkRunnableLock(t) \/ MarkRunnablePush(t)
    \/ RapEnter(t) \/ RapLock(t) \/ RapLoop(t) \/ RapRun(t)
    \/ WfLock(t) \/ WfLoop(t) \/ WfWake(t) \/ WfRun(t)

\* The selection of work: no token is marked, so that a waitFor goes on
\* taking work.
NextSched ==
    \/ \E t \in Threads : WorkStep(t)
    \/ CallEnqueueWork(WorkSource, SchedInUse, MaxWork)
    \/ CallMarkRunnable(WorkSource, SchedInUse, MaxWork)
    \/ \E t \in SchedWaiters : CallSchedWaitFor(t, SchedInUse)
    \/ (SchedInUse = "ots" /\ CallRunAllPending(m_threadId))

SpecSched == InitSchedulers /\ [][NextSched]_vars

\* Tokens: the client also calls markCompleted. Every thread keeps running
\* and a thread that asks for the scheduler's mutex gets it in the end; a
\* client is never required to make a call.
NextToken ==
    \/ \E t \in Threads : WorkStep(t)
    \/ \E t \in Threads : MarkCompletedLock(t) \/ MarkCompletedInsert(t)
    \/ (WorkHandedOver < MaxTokenWork
            /\ CallEnqueueWork(WorkSource, SchedInUse, MaxTokenWork))
    \/ (WorkHandedOver < MaxTokenWork
            /\ CallMarkRunnable(WorkSource, SchedInUse, MaxTokenWork))
    \/ CallMarkCompleted(WorkSource, SchedInUse)
    \/ \E t \in SchedWaiters : CallSchedWaitFor(t, SchedInUse)
    \/ (SchedInUse = "ots" /\ CallRunAllPending(m_threadId))

SpecToken ==
    /\ InitSchedulers
    /\ [][NextToken]_vars
    /\ \A t \in Threads : WF_vars(SchedStep(t))
    /\ \A t \in Threads : SF_vars(SchedLock(t))

\* Coroutines started on either scheduler, in either mode, by the bound
\* thread of the OneThreadScheduler and by another thread; F is completed
\* by a third thread and the bound thread runs what is pending.
NextSwitch ==
    \/ \E t \in Threads :
        \/ AddLock(t) \/ AddCheck(t) \/ AddInline(t) \/ AddRet(t)
        \/ SetStore(t)
        \/ NotifyLock(t) \/ NotifyMove(t) \/ NotifySetState(t)
        \/ NotifyRun(t) \/ NotifyRet(t)
        \/ MarkRunnableLock(t) \/ MarkRunnablePush(t)
        \/ RapEnter(t) \/ RapLock(t) \/ RapLoop(t) \/ RapRun(t)
        \/ CoStep(t)
    \/ \E t \in Threads, s \in Scheds : CallCoroutineOn(t, s)
    \/ \E t \in Threads : CallRunAllPending(t)
    \/ \E t \in Threads : CallSet(t, 1, {1})

SpecSwitch == Init /\ [][NextSwitch]_vars

\* A ThreadPool of zero, one or two threads; the test's thread hands over
\* tasks and handles and then destroys the pool. Every thread keeps running
\* and a thread that asks for the pool's mutex gets it in the end; the
\* client is never required to make a call.
PoolOwner == "t1"
InitPool ==
    /\ InitCells
    /\ InitHist
    /\ InitQueue({1})
    /\ InitSched
    /\ InitCo
    /\ InitTask
    /\ \E workers \in {{}, {"t3"}, {"t2", "t3"}} :
        stack = [t \in Threads |->
                   IF t \notin workers THEN <<>>
                   ELSE <<Frame("tf_lock", "pool", NoCb, not_completed, NoVal, NoErr, <<>>)>>]

NextClose ==
    \/ \E t \in Threads : EnqueueLock(t) \/ EnqueuePush(t)
    \/ \E t \in Threads : MarkRunnableLock(t) \/ MarkRunnablePush(t)
    \/ \E t \in Threads : TfLock(t) \/ TfLoop(t) \/ TfWake(t) \/ TfRun(t)
    \/ \E t \in Threads : CloseLock(t) \/ CloseSet(t) \/ Join(t)
    \/ CallEnqueueWork(PoolOwner, "pool", MaxPoolWork)
    \/ CallMarkRunnable(PoolOwner, "pool", MaxPoolWork)
    \/ CallDestroy(PoolOwner)

SpecClose ==
    /\ InitPool
    /\ [][NextClose]_vars
    /\ \A t \in Threads : WF_vars(SchedStep(t) \/ CloseSet(t) \/ Join(t))
    /\ \A t \in Threads : SF_vars(SchedLock(t) \/ CloseLock(t))

\* thenAsyncLoop on the completed future F, and then executeAsyncLoop with
\* the same predicate and body on the value of F, called by one thread; the
\* pool has one thread; the futures the body returns unfinished are
\* completed by a third thread
Quiet(t) == Idle(t) \/ At(t, "tf_wait") \/ At(t, "terminated")
ThenLoopOver ==
    /\ thenCalls["R"] # "none"
    /\ \A t \in Threads : Quiet(t)
    /\ \A b \in ReturnedCells : m_state[b] # not_completed
NextSame ==
    \/ \E t \in Threads : CellStep(t)
    \/ \E t \in Threads : PoolStep(t)
    \/ \E t \in Threads :
        /\ LoopStep(t)
        /\ Cardinality({i \in DOMAIN callLog' : callLog'[i].fn = "cond"
                                                /\ callLog'[i].task = "R"
                                                /\ callLog'[i].out.more}) <= MaxSameIters
    \/ \E t \in Threads : AuxStep(t)
    \/ \E t \in Threads : ThenRet(t)
    \/ \E t \in Threads : Unwind(t)
    \/ CallComplete(LoopCaller, "F", Outcomes(Values, {}))
    \/ (m_state["F"] = completed_normally /\ CallThenAsyncLoop(LoopCaller))
    \/ \E t \in Completers : CallCompleteInner(t, Outcomes(Values, Errors))
    \/ (ThenLoopOver /\ CallExecuteAsyncLoop(LoopCaller))

SpecSame == InitThen /\ [][NextSame]_vars

\* Coroutines on a pool of one worker, in one of two tests. Either the test
\* AsyncGenerator_compound: two generators, the compound of them and the
\* test dequeueing from the compound (co_yield and co_await on a stream); or
\* coroutines returning Future<int>, the first awaiting the future F, which a
\* third thread completes or fails, and the second awaiting the first
\* (co_await on a future). Every thread keeps running; the test is never
\* required to make a call.
StreamTest == \E g \in Streams : handle[g].status # "new"
FutureTest == compl # <<>> \/ \E k \in Coros : coro[k].status # "new"
NextSuspend ==
    \/ \E t \in Threads : GenStep(t)
    \/ \E t \in Threads : AwaitStep(t)
    \/ \E t \in Threads : StreamPoolStep(t)
    \/ \E t \in Threads : CellStep(t)
    \/ \E t \in Threads : CoStep(t)
    \/ \E g \in Streams :
        /\ ~FutureTest
        /\ \A h \in Streams : (h \in Generators /\ g = "C") => handle[h].status # "new"
        /\ g = "B" => handle["A"].status # "new"
        /\ CallStream(MainThread, g, {NoThrow})
    \/ (~FutureTest /\ CallStreamDequeue(MainThread, "C"))
    \/ (~StreamTest /\ CallCoroutineOn(MainThread, "pool"))
    \/ \E t \in Completers : ~StreamTest /\ CallSet(t, 1, {1})
    \/ \E t \in Completers : ~StreamTest /\ CallSetException(t, 1, {"e1"})

SuspendStep(t) ==
    GenStep(t) \/ AwaitStep(t) \/ StreamPoolStep(t) \/ CellStep(t) \/ CoStep(t)

SpecSuspend ==
    /\ InitStream({"t2"})
    /\ [][NextSuspend]_vars
    /\ \A t \in Threads : WF_vars(SuspendStep(t))

\* The test AsyncGenerator_compound on a pool of one worker,
\* or the coroutines returning Future<int>, the first awaiting the
\* future F, which a third thread completes or fails, and the second
\* awaiting the first; the test may let any Future or StreamSource it holds
\* go out of scope at any moment between its calls
NextFrames ==
    \/ \E t \in Threads : GenStep(t)
    \/ \E t \in Threads : AwaitStep(t)
    \/ \E t \in Threads : StreamPoolStep(t)
    \/ \E t \in Threads : CellStep(t)
    \/ \E t \in Threads : CoStep(t)
    \/ \E g \in Streams :
        /\ ~FutureTest
        /\ \A h \in Streams : (h \in Generators /\ g = "C") => handle[h].status # "new"
        /\ g = "B" => handle["A"].status # "new"
        /\ CallStream(MainThread, g, {NoThrow})
    \/ (~FutureTest /\ CallStreamDequeue(MainThread, "C"))
    \/ \E g \in Streams : DropStreamSource(MainThread, g)
    \/ (~StreamTest /\ CallCoroutineOn(MainThread, "pool"))
    \/ \E t \in Completers : ~StreamTest /\ CallSet(t, 1, {1})
    \/ \E t \in Completers : ~StreamTest /\ CallSetException(t, 1, {"e1"})
    \/ \E k \in Coros : DropFuture(MainThread, k)

SpecFrames == InitStream({"t2"}) /\ [][NextFrames]_vars

\* the caller lets go of the Future that the operator returned: its
\* IntrusiveSharedPtr calls removeRef on the task of cell R
DropReturned(t) ==
    /\ Idle(t)
    /\ thenCalls["R"] = "returned"
    /\ thenCalls' = [thenCalls EXCEPT !["R"] = "dropped"]
    /\ UNCHANGED <<cellVars, histVars, queueVars, queueHist, schedVars, fLog, taskLog,
                   coVars, taskVars, waitVars, streamVars, stack>>

\* then or thenCatchAll called on F by one thread, which may let go of the
\* returned future at any moment afterwards; F completed or failed by
\* another, before or after the call; one pool thread
NextKeep ==
    \E t \in Threads :
        \/ CellStep(t)
        \/ PoolStep(t)
        \/ ThenStep(t)
        \/ CatchAllStep(t)
        \/ Unwind(t)
        \/ CallThen(t)
        \/ (t = LoopCaller /\ CallThenCatchAll(t))
        \/ (t = LoopCaller /\ DropReturned(t))
        \/ (t \in Completers /\ CallComplete(t, "F", Outcomes(Values, Errors)))

SpecKeep == InitThen /\ [][NextKeep]_vars

\* the producer and the consumer of SpecQueue, with each thread that can
\* take a step of the queue's code again and again taking one in the end
\* (the threads run, m_mutex is granted in the end); no spurious wake-up is
\* ever bound to happen
SpecBlock ==
    /\ InitAnySize
    /\ [][NextQueue]_vars
    /\ \A t \in {ProducerThread, ConsumerThread} : SF_vars(QueueStep(t))

\* The tests that run user-supplied code, one of them in a behaviour:
\* callbacks registered on the cell F; counting one-shot callbacks of the
\* queue; tasks and handles handed to a scheduler and run by threadFunc,
\* waitFor or runAllPending; a coroutine awaiting F on a pool of one worker.
OnceTest ==
    \/ prod.busy \/ prod.closed \/ prod.next > 1 \/ cons.calls > 0
    \/ \E n \in CbIds : regs[n].path \in {"value", "slot"}
CellTest ==
    \/ compl # <<>>
    \/ \E n \in CbIds : regs[n].status # "none" /\ regs[n].path \notin {"value", "slot"}
SchedTest ==
    \/ WorkHandedOver > 0
    \/ \E t \in Threads \ LiveWorkers : Depth(t) > 0 /\ stack[t][1].obj \in Scheds
NextUser ==
    \/ \E t \in Threads : CellStep(t)
    \/ \E t \in Threads : QueueStep(t)
    \/ \E t \in Threads : QueueSpurious(t)
    \/ \E t \in Threads : WorkStep(t)
    \/ \E t \in Threads : CoStep(t)
    \/ /\ LiveWorkers = {} /\ ~OnceTest /\ ~SchedTest
       /\ \/ CallAdd(MainThread)
          \/ \E t \in Completers : CallSet(t, 1, Values)
          \/ \E t \in Completers : CallSetException(t, 1, Errors)
    \/ /\ LiveWorkers = {} /\ ~CellTest /\ ~SchedTest
       /\ \/ (m_slotAvailableCallback = NoCb /\ OnceEnqueue(ProducerThread))
          \/ (m_valueAvailableCallback = NoCb /\ OnceDequeue(ConsumerThread))
          \/ (m_valueAvailableCallback = NoCb /\ InstallValue(ConsumerThread))
          \/ (m_slotAvailableCallback = NoCb /\ InstallSlot(ProducerThread))
    \/ /\ PoolThread \notin LiveWorkers /\ ~CellTest /\ ~OnceTest
       /\ \/ CallEnqueueWork(WorkSource, SchedInUse, MaxPoolWork)
          \/ CallMarkRunnable(WorkSource, SchedInUse, MaxPoolWork)
          \/ \E t \in SchedWaiters : CallSchedWaitFor(t, SchedInUse)
          \/ (SchedInUse = "ots" /\ CallRunAllPending(m_threadId))
    \/ /\ PoolThread \in LiveWorkers
       /\ \/ CallCoroutineOn(MainThread, "pool")
          \/ \E t \in Completers : CallSet(t, 1, {1})
          \/ \E t \in Completers : CallSetException(t, 1, {"e1"})

InitUser ==
    /\ InitCells
    /\ InitHist
    /\ InitQueue({1})
    /\ InitSched
    /\ InitCo
    /\ InitTask
    /\ \E workers \in {{}, {PoolWorker}, {PoolThread}} :
        stack = [t \in Threads |->
                   IF t \notin workers THEN <<>>
                   ELSE <<Frame("tf_lock", "pool", NoCb, not_completed, NoVal, NoErr, <<>>)>>]

SpecUser == InitUser /\ [][NextUser]_vars

(***************************************************************************)
(* Properties of one cell.                                                 *)
(***************************************************************************)
\* the positions of runLog at which user callback n was started
RunsOf(n) == {i \in DOMAIN runLog : runLog[i].cb = UserCb(n)}
Registered == {n \in CbIds : regs[n].status # "none"}
Returned == {n \in CbIds : regs[n].status = "returned"}
Chained == {n \in CbIds : regs[n].path = "chain"}
\* the completion call of the cell has returned
CompletionDone == Len(compl) >= 1 /\ compl[1].done
AllIdle == \A t \in Threads : Idle(t)

\* C1: when registrations race with the completing call, every registered
\* callback runs exactly once: no callback ever runs twice, a callback whose
\* registration ran it inline has run once when the registration returns, a
\* callback stored in the chain has run once when the completing call
\* returns, and once both kinds of call have returned the number of callback
\* executions equals the number of registrations.
C1_EveryCallbackRunsExactlyOnce ==
    /\ \A n \in CbIds :
        /\ Cardinality(RunsOf(n)) <= 1
        /\ n \notin Registered => RunsOf(n) = {}
        /\ (n \in Returned /\ (CompletionDone \/ regs[n].path = "inline"))
              => Cardinality(RunsOf(n)) = 1
    /\ (CompletionDone /\ AllIdle) => Len(runLog) = Cardinality(Registered)

\* a race: a callback stored in the chain was started after a callback that
\* its registration ran inline, and all calls have returned
C1_Witness ==
    /\ CompletionDone /\ AllIdle
    /\ \E a, b \in CbIds :
        /\ regs[a].path = "chain" /\ regs[b].path = "inline"
        /\ regs[a].thread # regs[b].thread
        /\ \E i \in RunsOf(a), j \in RunsOf(b) : j < i

\* C3: callbacks registered one after the other on a still-pending cell are
\* started in that order: if the registration of a returned before the
\* registration of b was called and both were stored in the chain, then b
\* is started only after a has been started.
C3_ChainRunsInRegistrationOrder ==
    \A a, b \in Chained :
        (<<a, b>> \in before /\ RunsOf(b) # {})
            => \E i \in RunsOf(a) : \A j \in RunsOf(b) : i < j

\* MaxCbs callbacks were stored in the chain one after the other and all
\* of them have run
C3_Witness ==
    /\ Chained = CbIds
    /\ \A a, b \in CbIds : a < b => <<a, b>> \in before
    /\ \A n \in CbIds : RunsOf(n) # {}

\* C4: a callback registered while the cell was pending is run by the
\* completing call: on the completing thread, from notify, before set /
\* setException returns, and when it starts the cell is already in the
\* requested non-pending state with the value or error stored.
C4_ChainRunsInsideSetAfterStateWrite ==
    /\ \A i \in DOMAIN runLog :
          runLog[i].cb.n \in Chained =>
              /\ Len(compl) >= 1
              /\ runLog[i].thread = compl[1].thread
              /\ runLog[i].site = "notify_run"
              /\ runLog[i].seen # not_completed
              /\ runLog[i].seen = compl[1].st
              /\ runLog[i].val = compl[1].val
              /\ runLog[i].err = compl[1].err
    /\ CompletionDone => \A n \in Chained : RunsOf(n) # {}

\* setException has returned after running two chained callbacks
C4_Witness ==
    /\ CompletionDone
    /\ compl[1].st = exception
    /\ Cardinality(Chained) >= 2
    /\ \A n \in Chained : RunsOf(n) # {}

\* C5: a callback registered on a cell that is already completed or failed
\* runs on the registering thread before the registration returns, and is
\* never stored in the chain.
C5_RegistrationOnCompletedCellRunsInline ==
    \A n \in CbIds :
        (regs[n].status # "none" /\ regs[n].atCall # not_completed) =>
            /\ \A c \in Cells : \A k \in DOMAIN m_continuations[c] :
                  m_continuations[c][k] # UserCb(n)
            /\ \A t \in Threads : \A d \in DOMAIN stack[t] :
                  \A k \in DOMAIN stack[t][d].conts : stack[t][d].conts[k] # UserCb(n)
            /\ \A i \in RunsOf(n) :
                  runLog[i].thread = regs[n].thread /\ runLog[i].site = "add_ret"
            /\ regs[n].status = "returned" => Cardinality(RunsOf(n)) = 1

\* a callback was registered on a failed cell and its registration returned
C5_Witness ==
    \E n \in CbIds :
        /\ regs[n].atCall = exception
        /\ regs[n].status = "returned"
        /\ RunsOf(n) # {}

\* the state, value and error of cell F are left as they are by a step
CellFKept ==
    /\ m_state'["F"] = m_state["F"]
    /\ m_val'["F"] = m_val["F"]
    /\ m_exception'["F"] = m_exception["F"]

ItemsOf(s) == SelectSeq(s, isItem)
\* the elements pushed on the queue, in push order
Enqueued == [i \in DOMAIN enqLog |-> enqLog[i].el]
IsPrefix(s, u) == Len(s) <= Len(u) /\ SubSeq(u, 1, Len(s)) = s
\* the positions of deqLog that hold an Eof or an exception
MarkersDequeued == {i \in DOMAIN deqLog : ~isItem(deqLog[i])}

\* C6: the queue is first-in first-out. The Items returned by dequeue are,
\* in order, the Items enqueued (the i-th Item returned is the i-th Item the
\* producer enqueued), and when dequeue returns an Eof or an exception,
\* every Item enqueued before that marker has been returned before it.
C6_DequeuedItemsAreEnqueuedItemsInOrder ==
    /\ IsPrefix(ItemsOf(deqLog), ItemsOf(Enqueued))
    /\ \A i \in DOMAIN ItemsOf(deqLog) : ItemsOf(deqLog)[i] = makeItem(i)
    /\ \A i \in MarkersDequeued :
          \E j \in DOMAIN enqLog :
              /\ enqLog[j].el = deqLog[i]
              /\ ItemsOf(SubSeq(deqLog, 1, i)) = ItemsOf(SubSeq(Enqueued, 1, j))

\* all MaxItems Items went through a queue of size 2 that held two of them
\* at once, and the marker enqueued after them was returned
C6_Witness ==
    /\ m_queueSize = 2
    /\ Len(ItemsOf(deqLog)) = MaxItems
    /\ MarkersDequeued # {}
    /\ \E i \in DOMAIN enqLog : isItem(enqLog[i].el) /\ enqLog[i].popsAtPush < i - 1

\* C7: the queue never holds more than m_queueSize Items, and an Item whose
\* enqueue (or whose setOnSlotAvailableOnceCallback) found m_queueSize
\* elements in the queue is pushed only after a dequeue has removed an
\* element since.
C7_BufferedItemsBoundedByQueueSize ==
    /\ Len(ItemsOf(m_queue)) <= m_queueSize
    /\ \A i \in DOMAIN enqLog :
          (isItem(enqLog[i].el) /\ enqLog[i].popsAtFull >= 0)
              => enqLog[i].popsAtPush > enqLog[i].popsAtFull

\* an enqueue that found the queue full was woken and pushed on the
\* producer's thread, and a callback stored on a full queue pushed on the
\* consumer's thread
C7_Witness ==
    /\ \E i \in DOMAIN enqLog :
          enqLog[i].popsAtFull >= 0 /\ enqLog[i].thread = ProducerThread
    /\ \E i \in DOMAIN enqLog :
          enqLog[i].popsAtFull >= 0 /\ enqLog[i].thread = ConsumerThread

\* C8: once dequeue has returned an Eof or an exception, every later dequeue
\* returns an equal marker without waiting, and the marker stays at the
\* front of the queue: no dequeue is waiting, no value callback is stored.
C8_MarkerIsStickyAndNeverRemoved ==
    \A i \in MarkersDequeued :
        /\ \A j \in DOMAIN deqLog : j > i => deqLog[j] = deqLog[i]
        /\ m_queue # <<>> /\ Head(m_queue) = deqLog[i]
        /\ \A t \in Threads :
            ~(At(t, "deq_wait") \/ At(t, "deq_woken") \/ At(t, "deq_again"))
        /\ m_valueAvailableCallback = NoCb

\* after an Item, an exception was returned three times by dequeue
C8_Witness ==
    /\ Len(deqLog) >= 4
    /\ isItem(deqLog[1])
    /\ \A i \in (Len(deqLog) - 2) .. Len(deqLog) : deqLog[i].tag = "exc"

(***************************************************************************)
(* Properties of then.                                                     *)
(***************************************************************************)
\* the tasks of cell r that were pushed on an executor
TasksOf(r) == {i \in DOMAIN taskLog : taskLog[i].task = ThenTask(r)}

\* C10: if the antecedent F fails with e (it is completed by
\* setException(e)), the future R returned by F.then(pool, func) fails with
\* exactly e: R is never completed normally, once R is failed its exception
\* is e, and R is failed as soon as both then and setException have
\* returned. func is never invoked and no task running func is ever pushed
\* on the executor.
C10_ThenForwardsErrorWithoutRunningFunc ==
    (Len(compl) >= 1 /\ compl[1].st = exception) =>
        /\ fLog = <<>>
        /\ TasksOf("R") = {}
        /\ m_tasks["pool"] = <<>>
        /\ m_state["R"] # completed_normally
        /\ m_state["R"] = exception => m_exception["R"] = compl[1].err
        /\ (thenCalls["R"] = "returned" /\ compl[1].done) => m_state["R"] = exception

\* F failed with e2, both calls have returned, and R is failed with e2
C10_Witness ==
    /\ Len(compl) >= 1 /\ compl[1].st = exception /\ compl[1].err = "e2"
    /\ compl[1].done
    /\ thenCalls["R"] = "returned"
    /\ m_state["R"] = exception /\ m_exception["R"] = "e2"
    /\ AllIdle \/ \A t \in Threads \ {PoolThread} : Idle(t)

(***************************************************************************)
(* Properties of coroutines on a OneThreadScheduler.                       *)
(***************************************************************************)
\* the frames of coroutine bodies after their co_await schedulingInfo
AfterAwaitSched == {"co_seg1", "co_seg2", "co_final"}

\* C9: a coroutine that has awaited the scheduling info of the
\* OneThreadScheduler runs on the scheduler's thread from then on: every
\* segment of its body that begins after that await, and every frame of
\* its body on a thread's stack after that await, is on m_threadId,
\* whichever thread started it, completed the future it awaits, or called
\* runAllPending or waitFor.
C9_SegmentsRunOnBoundThread ==
    /\ \A e \in segLog : e.sched = "ots" => e.thread = m_threadId
    /\ \A t \in Threads : \A d \in DOMAIN stack[t] :
          (stack[t][d].obj = "co" /\ stack[t][d].pc \in AfterAwaitSched)
              => t = m_threadId

\* both coroutines were started on the other thread, F was completed by a
\* third thread, and the segments after co_await f were resumed on the
\* bound thread by runAllPending and by waitFor
C9_Witness ==
    /\ \A k \in Coros : coro[k].status = "done" /\ coro[k].starter # m_threadId
    /\ Len(compl) = 1 /\ compl[1].thread # m_threadId
    /\ \E e \in segLog : e.seg = 2 /\ e.under = "rap_lock" /\ e.thread = m_threadId
    /\ \E e \in segLog : e.seg = 2 /\ e.under = "wf_lock" /\ e.thread = m_threadId

(***************************************************************************)
(* Properties of thenAsyncLoop.                                            *)
(***************************************************************************)
IsBodyReturn(c) == c.fn = "body" /\ c.out.ret # NoCell
\* the futures the loop has depended on, in order: the antecedent, then the
\* futures the body returned
LoopChain ==
    LET rets == SelectSeq(callLog, IsBodyReturn)
    IN <<"F">> \o [i \in DOMAIN rets |-> rets[i].out.ret]
\* the future on which the i-th call of cond or body was made
CalledOn(i) == LoopChain[(i + 1) \div 2]
\* the last call was a call of cond that returned false
CondSaidStop ==
    /\ callLog # <<>>
    /\ callLog[Len(callLog)].fn = "cond"
    /\ callLog[Len(callLog)].out = RetBool(FALSE)

\* C12: with v0 the antecedent's value and v(i+1) the value of the future
\* body(vi) returned, the loop calls cond(v0), body(v0), cond(v1), ... in
\* this order, body only after cond returned true; nothing is called after
\* cond has returned false; the loop's future is completed normally only
\* after cond has returned false on some vn, and then with exactly vn; and
\* once cond has returned false and the calls in progress have returned,
\* the loop's future is completed.
C12_LoopCompletesWithFirstValueFailingCond ==
    /\ \A i \in DOMAIN callLog :
          /\ callLog[i].fn = (IF i % 2 = 1 THEN "cond" ELSE "body")
          /\ i % 2 = 0 => callLog[i - 1].out = RetBool(TRUE)
          /\ callLog[i].arg = m_val[CalledOn(i)]
          /\ callLog[i].out = RetBool(FALSE) => i = Len(callLog)
    /\ m_state["R"] = completed_normally =>
          CondSaidStop /\ m_val["R"] = callLog[Len(callLog)].arg
    /\ (CondSaidStop /\ AllIdle) => m_state["R"] = completed_normally

\* the loop went twice round, once on a future completed later by another
\* thread, and completed with the value of the last future
C12_Witness ==
    /\ m_state["R"] = completed_normally
    /\ Len(callLog) = 5
    /\ \E i \in DOMAIN compl : compl[i].cell \in ReturnedCells /\ compl[i].done
    /\ m_val["R"] = m_val[LoopChain[3]]
    /\ AllIdle

\* C13 as stated: if cond or body throws e at some iteration, the loop's
\* future fails with e (at the latest when the thread that made the call has
\* left the library).
C13_ThrowInLoopFailsTheLoopFuture ==
    \A i \in DOMAIN callLog :
        (callLog[i].out.st = exception /\ Idle(callLog[i].thread))
            => (m_state["R"] = exception /\ m_exception["R"] = callLog[i].out.err)

\* C14: if the antecedent or a future returned by body fails with e, neither
\* cond nor body is called on it or after it (every call was made on a
\* future completed normally), the loop's future fails with nothing but e,
\* and it has failed with e once the calls in progress have returned.
C14_FailedFutureEndsLoop ==
    LET last == LoopChain[Len(LoopChain)]
    IN /\ \A i \in DOMAIN callLog : m_state[CalledOn(i)] = completed_normally
       /\ m_state["R"] = exception =>
              (m_state[last] = exception /\ m_exception["R"] = m_exception[last])
       /\ (m_state[last] = exception /\ thenCalls["R"] = "returned" /\ AllIdle) =>
              (m_state["R"] = exception /\ m_exception["R"] = m_exception[last])

\* the future returned by the second call of body was failed later by
\* another thread, and the loop's future has failed with its exception
C14_Witness ==
    /\ Len(LoopChain) = 3
    /\ \E i \in DOMAIN compl :
          compl[i].cell = LoopChain[3] /\ compl[i].st = exception /\ compl[i].done
    /\ m_state["R"] = exception
    /\ m_exception["R"] = m_exception[LoopChain[3]]
    /\ AllIdle

\* C15 as stated: no call of cond or body is made from inside the frames of
\* an earlier iteration: only the onFutureCompleted that makes the call is
\* on the stack.
C15_LoopIterationsDoNotNest ==
    \A i \in DOMAIN callLog : callLog[i].nest <= 1

(***************************************************************************)
(* Properties of thenAsync and thenCatchAllAsync.                          *)
(***************************************************************************)
\* the calls of the user function named fn
CallsOf(fn) == {i \in DOMAIN callLog : callLog[i].fn = fn}
\* the pool's thread waits for work and there is none
PoolAtRest ==
    /\ Depth(PoolThread) = 1
    /\ Top(PoolThread).pc = "tf_wait"
    /\ m_tasks["pool"] = <<>>
\* every call in progress has returned and the pool has nothing to do
Settled == PoolAtRest /\ \A t \in Threads \ {PoolThread} : Idle(t)
\* the cells a and b are in the same state with the same outcome
SameOutcome(a, b) ==
    /\ m_state[a] = m_state[b]
    /\ m_val[a] = m_val[b]
    /\ m_exception[a] = m_exception[b]

\* C16: for R = F.thenAsync(pool, f): f is called at most once, only when F
\* is completed normally and with F's value; when F is completed normally, R
\* is completed only if f has returned a future that is completed, and then
\* R has the state, value and exception of that future; and when F is
\* completed normally and everything has come to rest, f has been called,
\* and R is completed if the future f returned is.
C16_ThenAsyncFollowsInnerFuture ==
    taskClass.class = "ContinuationAsyncTaskFromOneFuture" =>
        /\ Cardinality(CallsOf("func")) <= 1
        /\ \A i \in CallsOf("func") :
              m_state["F"] = completed_normally /\ callLog[i].arg = m_val["F"]
        /\ (m_state["F"] = completed_normally /\ m_state["R"] # not_completed) =>
              \E i \in CallsOf("func") :
                  /\ callLog[i].out.ret # NoCell
                  /\ m_state[callLog[i].out.ret] # not_completed
                  /\ SameOutcome("R", callLog[i].out.ret)
        /\ (m_state["F"] = completed_normally /\ thenCalls["R"] = "returned" /\ Settled) =>
              \E i \in CallsOf("func") :
                  /\ callLog[i].out.ret # NoCell
                  /\ m_state[callLog[i].out.ret] # not_completed
                        => m_state["R"] # not_completed

\* f returned a future that another thread completed later with a value,
\* and R is completed with that value
C16_Witness ==
    /\ taskClass.class = "ContinuationAsyncTaskFromOneFuture"
    /\ \E i \in CallsOf("func"), j \in DOMAIN compl :
          /\ compl[j].cell = callLog[i].out.ret
          /\ compl[j].st = completed_normally
          /\ compl[j].done
          /\ m_state["R"] = completed_normally
          /\ m_val["R"] = compl[j].val
    /\ Settled

\* the thread t is no longer inside a call it made or a task it ran
HasLeft(t) ==
    \/ Terminated
    \/ Idle(t)
    \/ Depth(t) = 1 /\ Top(t).pc \in {"tf_lock", "tf_loop", "tf_wait"}

\* C17 as stated: if the function passed to thenAsync or the handler passed
\* to thenCatchAllAsync throws e instead of returning a future, R fails with
\* e (at the latest when the thread that made the call is out of it).
C17_ThrowingAsyncFunctionFailsTheFuture ==
    \A i \in CallsOf("func") \cup CallsOf("handler") :
        (callLog[i].out.st = exception /\ HasLeft(callLog[i].thread))
            => (m_state["R"] = exception /\ m_exception["R"] = callLog[i].out.err)

(***************************************************************************)
(* Properties of whenAll and its variants, and of runAsync.                *)
(***************************************************************************)
\* the inputs that have failed
FailedInputs == {c \in InputCells : m_state[c] = exception}

\* C18: for whenAll, whenAllFromFutures and whenAllFromArrayOfFutures on
\* the inputs F and G, completed by two different threads before, during or
\* after the call: func is called at most once, and only when no input is
\* pending; R is completed only when no input is pending; and when both
\* inputs are completed normally and everything has come to rest, func has
\* been called exactly once.
C18_WhenAllRunsOnceAfterAllInputs ==
    taskClass.class \in WhenAllClasses =>
        /\ Cardinality(CallsOf("func")) <= 1
        /\ \A i \in CallsOf("func") :
              \A k \in DOMAIN Inputs : callLog[i].inputs[k] # not_completed
        /\ m_state["R"] # not_completed =>
              \A c \in InputCells : m_state[c] # not_completed
        /\ (/\ \A c \in InputCells : m_state[c] = completed_normally
            /\ thenCalls["R"] = "returned"
            /\ Settled) => Cardinality(CallsOf("func")) = 1

\* the two inputs were completed by different threads after whenAll had
\* attached its callbacks, the callbacks ran on the two threads, and func
\* was called once and R is completed
C18_Witness ==
    /\ taskClass.class \in WhenAllClasses
    /\ Cardinality(CallsOf("func")) = 1
    /\ m_state["R"] = completed_normally
    /\ Len(compl) = 2
    /\ compl[1].thread # compl[2].thread
    /\ \A c \in InputCells : m_continuations[c] # <<>>
    /\ Settled

\* C19 as stated: if an input has failed, func is not called (so func is
\* only ever called with inputs that are all completed normally), R is
\* never completed normally, when R is completed it is with the exception
\* of a failed input, and R has failed once every input is completed and
\* everything has come to rest.
C19_FailedInputSkipsFunction ==
    taskClass.class \in WhenAllClasses =>
        /\ \A i \in CallsOf("func") :
              \A k \in DOMAIN Inputs : callLog[i].inputs[k] = completed_normally
        /\ (FailedInputs # {} /\ m_state["R"] # not_completed) =>
              /\ m_state["R"] = exception
              /\ \E c \in FailedInputs : m_exception["R"] = m_exception[c]
        /\ (/\ FailedInputs # {}
            /\ \A c \in InputCells : m_state[c] # not_completed
            /\ thenCalls["R"] = "returned"
            /\ \A t \in Threads \ {PoolThread} : Idle(t)
            /\ Terminated \/ PoolAtRest) => m_state["R"] = exception

\* C11 as stated: if func throws e, R fails with exactly e (at the latest
\* when the thread that called func is out of the task), and e does not
\* leave the task into the executor's thread, where it would end the
\* process.
C11_ThrowingFunctionFailsTheFuture ==
    \A i \in CallsOf("func") :
        callLog[i].out.st = exception =>
            /\ ~Terminated
            /\ \A j \in DOMAIN escaped : escaped[j].thread # callLog[i].thread
            /\ HasLeft(callLog[i].thread) =>
                  (m_state["R"] = exception /\ m_exception["R"] = callLog[i].out.err)

(***************************************************************************)
(* Properties of thenCatchAll.                                             *)
(***************************************************************************)
\* C20: for R = F.thenCatchAll(pool, h): when F is completed normally with
\* v, h is never called and R is completed only normally with v; h is called
\* at most once, only when F has failed and with F's exception e; when F has
\* failed, R is completed only with the outcome of the call h(e), normally
\* with the value h returned; and once F is completed and everything has
\* come to rest, R is completed, after exactly one call of h if F failed.
C20_CatchAllPassesValueOrHandlesError ==
    taskClass.class = "ContinuationTaskCatchAll" =>
        /\ m_state["F"] = completed_normally =>
              /\ CallsOf("handler") = {}
              /\ m_state["R"] # exception
              /\ m_state["R"] = completed_normally => m_val["R"] = m_val["F"]
        /\ Cardinality(CallsOf("handler")) <= 1
        /\ \A i \in CallsOf("handler") :
              m_state["F"] = exception /\ callLog[i].argErr = m_exception["F"]
        /\ (m_state["F"] = exception /\ m_state["R"] # not_completed) =>
              \E i \in CallsOf("handler") :
                  /\ m_state["R"] = callLog[i].out.st
                  /\ m_val["R"] = callLog[i].out.val
                  /\ m_exception["R"] = callLog[i].out.err
        /\ (m_state["F"] # not_completed /\ thenCalls["R"] = "returned" /\ Settled) =>
              /\ m_state["R"] # not_completed
              /\ m_state["F"] = exception => Cardinality(CallsOf("handler")) = 1

\* F failed with e2 after thenCatchAll had returned, the handler was called
\* with e2 on the pool's thread and returned 1, and R is completed with 1
C20_Witness ==
    /\ taskClass.class = "ContinuationTaskCatchAll"
    /\ m_state["F"] = exception /\ m_exception["F"] = "e2"
    /\ m_continuations["F"] # <<>>
    /\ \E i \in CallsOf("handler") :
          /\ callLog[i].argErr = "e2"
          /\ callLog[i].thread = PoolThread
          /\ callLog[i].out = RetValue(1)
    /\ m_state["R"] = completed_normally /\ m_val["R"] = 1
    /\ Settled

(***************************************************************************)
(* Properties of then with the identity function.                          *)
(***************************************************************************)
\* C21: for R = F.then(pool, x -> x): R is completed normally only when F
\* is, and then with F's value; R is failed only when F is, and then with
\* F's exception; and once F is completed and everything has come to
\* rest, R is completed as F is.
C21_ThenIdentityHasOutcomeOfAntecedent ==
    /\ m_state["R"] = completed_normally =>
          (m_state["F"] = completed_normally /\ m_val["R"] = m_val["F"])
    /\ m_state["R"] = exception =>
          (m_state["F"] = exception /\ m_exception["R"] = m_exception["F"])
    /\ (m_state["F"] # not_completed /\ thenCalls["R"] = "returned" /\ Settled) =>
          SameOutcome("R", "F")

\* F was completed with 2 after then had returned; the task ran on the
\* pool's thread and R is completed with 2
C21_Witness ==
    /\ m_state["F"] = completed_normally /\ m_val["F"] = 2
    /\ m_continuations["F"] # <<>>
    /\ fLog # <<>>
    /\ m_state["R"] = completed_normally /\ m_val["R"] = 2
    /\ Settled

(***************************************************************************)
(* Properties of wait().                                                   *)
(***************************************************************************)
\* the thread t is inside a call of op, and it has returned from one
InCall(op, t) ==
    \E i \in DOMAIN waitLog :
        waitLog[i].op = op /\ waitLog[i].thread = t /\ ~waitLog[i].returned
HasReturned(op, t) ==
    \E i \in DOMAIN waitLog :
        waitLog[i].op = op /\ waitLog[i].thread = t /\ waitLog[i].returned

\* C22: a call of wait() on F returns only when F is completed (at every
\* return the state of F is not not_completed), and every thread inside
\* wait() when F is completed, blocked in m_cv.wait or not, returns from it,
\* without the help of any spurious wake-up.
C22_WaitReturnsIffCompleted ==
    /\ [](\A i \in DOMAIN waitLog :
            (waitLog[i].op = "wait" /\ waitLog[i].returned)
                => waitLog[i].seen # not_completed)
    /\ \A t \in Registrars :
          (InCall("wait", t) /\ m_state["F"] # not_completed) ~> HasReturned("wait", t)

\* both threads have been blocked in m_cv.wait, F was completed, and both
\* have returned
C22_Witness ==
    /\ \A t \in Registrars :
          \E i \in DOMAIN waitLog :
              /\ waitLog[i].op = "wait" /\ waitLog[i].thread = t
              /\ waitLog[i].blocked /\ waitLog[i].returned
              /\ waitLog[i].seen # not_completed
    /\ AllIdle

(***************************************************************************)
(* Properties of FutureWaiter.                                             *)
(***************************************************************************)
\* the futures for which add has been called, and their number
AddCalled == {waitLog[i].cell : i \in {j \in DOMAIN waitLog : waitLog[j].op = "add"}}

\* C23: waitAll returns only when every future that add has put on the
\* waiter's list is completed, normally or not (none of them is pending at
\* the return); and a thread inside waitAll when every future given to add
\* is completed returns from it, unless add is called again, without the
\* help of any spurious wake-up.
C23_WaitAllReturnsWhenAllResolved ==
    /\ [](\A i \in DOMAIN waitLog :
            (waitLog[i].op = "waitAll" /\ waitLog[i].returned) => waitLog[i].pending = {})
    /\ \A k \in 0..Len(Inputs) :
          (/\ InCall("waitAll", "t2")
           /\ Cardinality(AddCalled) = k
           /\ \A c \in AddCalled : m_state[c] # not_completed)
              ~> (HasReturned("waitAll", "t2") \/ Cardinality(AddCalled) > k)

\* waitAll was blocked with both futures on the list, the futures were
\* completed by another thread, one normally and one not, and waitAll has
\* returned
C23_Witness ==
    /\ \E i \in DOMAIN waitLog :
          waitLog[i].op = "waitAll" /\ waitLog[i].blocked /\ waitLog[i].returned
    /\ Pushed = InputCells
    /\ \A c \in InputCells : m_continuations[c] # <<>>
    /\ m_state["F"] = completed_normally /\ m_state["G"] = exception
    /\ AllIdle

(***************************************************************************)
(* Properties of the one-shot callbacks of the queue.                      *)
(***************************************************************************)
\* the invocations of the counting callback n
OnceRuns(n) == {i \in DOMAIN runLog : runLog[i].cb = CountCb(n)}
\* the counting callback n is stored in its slot of the queue
Armed(n) == m_valueAvailableCallback = CountCb(n) \/ m_slotAvailableCallback = CountCb(n)
AllInstalled == Installed("value") \cup Installed("slot")
\* the counting callback n has been moved out of its slot by an enqueue or a
\* dequeue that is about to call it
Taken(n) ==
    \E t \in Threads : \E i \in DOMAIN stack[t] :
        stack[t][i].pc \in {"enq_call", "deq_call"} /\ stack[t][i].cb = CountCb(n)

\* C24: a one-shot callback installed by a client that keeps the contract runs
\* exactly once. It is never run twice; once the installing call has returned
\* it has run, or is still armed, or has just been taken out of its slot by
\* the call that is about to run it; it is armed only while its condition
\* does not hold (a value callback while the queue is empty, a slot callback
\* while the queue is full), so that the next enqueue (the next Item dequeue)
\* is the one that runs it; an inline run is on the installing thread, inside
\* the installing call, with the condition holding; a deferred run is made by
\* the thread performing the enqueue (the Item dequeue), inside that call.
C24_OneShotCallbackRunsExactlyOnce ==
    \A n \in AllInstalled :
        /\ Cardinality(OnceRuns(n)) <= 1
        /\ ~(Armed(n) /\ OnceRuns(n) # {})
        /\ ~(Taken(n) /\ (Armed(n) \/ OnceRuns(n) # {}))
        /\ ~Installing(n) => (Armed(n) \/ Taken(n) \/ OnceRuns(n) # {})
        /\ m_valueAvailableCallback = CountCb(n) => m_queue = <<>>
        /\ m_slotAvailableCallback = CountCb(n) => Len(m_queue) >= m_queueSize
        /\ \A i \in OnceRuns(n) :
            IF regs[n].path = "value"
            THEN \/ /\ runLog[i].site = "sov_ret"
                    /\ runLog[i].thread = regs[n].thread
                    /\ runLog[i].size >= 1
                 \/ /\ runLog[i].site = "enq_ret"
                    /\ runLog[i].thread = enqLog[runLog[i].enqs].thread
                    /\ runLog[i].thread = ProducerThread
            ELSE \/ /\ runLog[i].site = "sos_ret"
                    /\ runLog[i].thread = regs[n].thread
                    /\ runLog[i].size < m_queueSize
                 \/ /\ runLog[i].site = "deq_ret"
                    /\ runLog[i].thread = ConsumerThread
                    /\ runLog[i].pops >= 1

\* C24's case: a value callback stored on an empty queue was run by the next
\* enqueue and a slot callback stored on a full queue by the next Item
\* dequeue; a further enqueue and a further Item dequeue followed, everything
\* has returned, and each callback has run once.
C24_Witness ==
    /\ \A t \in Threads : Idle(t)
    /\ \E n \in Installed("value") : \E i \in OnceRuns(n) :
        /\ runLog[i].site = "enq_ret"
        /\ Len(enqLog) > runLog[i].enqs
    /\ \E n \in Installed("slot") : \E i \in OnceRuns(n) :
        /\ runLog[i].site = "deq_ret"
        /\ pops > runLog[i].pops

\* C25: an armed one-shot callback is never replaced and lost: every callback
\* whose installing call has returned has run, is about to be run, or is
\* still armed.
C25_ArmedCallbackIsNeverReplaced ==
    \A n \in AllInstalled : Installing(n) \/ Armed(n) \/ Taken(n) \/ OnceRuns(n) # {}
(***************************************************************************)
(* Properties of stream coroutines.                                        *)
(***************************************************************************)
\* the threads at the Item enqueue of a co_yield, and those that resume a
\* coroutine suspended in a co_yield
AtYieldEnqueue(t, g) == At(t, "y_enqueue") /\ Top(t).obj = g
ResumesYield(t, g) ==
    At(t, "sc_resume") /\ Top(t).obj = g /\ handle[g].status = "suspended"
        /\ handle[g].pc = "y_enqueue"
\* the queue of stream g is full and nobody is inside the co_yield of g
SuspendedOnFull(g) ==
    /\ handle[g].status = "suspended"
    /\ handle[g].pc = "y_enqueue"
    /\ promise[g].m_slotAvailableCallback = StreamResumeCb(g)

\* C26: co_yield never enqueues into a full channel. No Item enqueue of a
\* co_yield has found the queue full and blocked its thread; a coroutine
\* that suspends on a full queue leaves its callback in the slot and no
\* thread in the co_yield; it is resumed only when a slot is free, and the
\* enqueue it then performs, like the enqueue of a co_yield that did not
\* suspend, finds a free slot.
C26_YieldNeverEnqueuesIntoFullQueue ==
    /\ streamLog.blocked = {}
    /\ \A g \in Streams :
        /\ \A t \in Threads :
            (AtYieldEnqueue(t, g) \/ ResumesYield(t, g))
                => Len(promise[g].m_queue) < PromiseQueueSize
        /\ SuspendedOnFull(g) =>
            /\ Len(promise[g].m_queue) >= PromiseQueueSize
            /\ \A t \in Threads : \A k \in 1 .. Depth(t) :
                ~(stack[t][k].obj = g /\ stack[t][k].pc \in {"y_ready", "y_suspend",
                                                             "y_enqueue"})

\* a co_yield that suspended on a full queue has been resumed and has
\* enqueued its Item
C26_Witness ==
    \E t \in Threads :
        /\ At(t, "y_done")
        /\ handle[Top(t).obj].waited
        /\ handle[Top(t).obj].i = 1
        /\ Len(streamLog.enq[Top(t).obj]) = 2
\* the terminal markers among the first n elements of sequence s
Markers(s, n) == {k \in 1 .. n : ~isItem(s[k])}
\* the body of generator g has thrown, at the turn it was to throw at
Thrown(g) == handle[g].throwAt # NoThrow
\* the Items generator g yields before its body ends
Yielded(g) ==
    [k \in 1 .. (IF Thrown(g) THEN handle[g].throwAt ELSE GenCount) |->
        makeItem(FirstValue(g) + k - 1)]

\* C27: a stream coroutine enqueues exactly one terminal marker. At any
\* moment what generator A has enqueued holds at most one marker, which is
\* its last element; once the coroutine is at its end it has enqueued the
\* Items it yielded and then one marker, Eof if the body returned and the
\* exception if the body threw; and what the consumer has dequeued is the
\* beginning of what was enqueued, so that a marker is seen after every Item
\* before it.
C27_ExactlyOneTerminalMarker ==
    LET enq == streamLog.enq["A"]
        deq == streamLog.deq
    IN /\ Cardinality(Markers(enq, Len(enq))) <= 1
       /\ Markers(enq, Len(enq)) \subseteq {Len(enq)}
       /\ handle["A"].status = "done" =>
            enq = Yielded("A") \o <<IF Thrown("A") THEN makeException("e1")
                                    ELSE makeEof(NoVal)>>
       /\ Len(deq) <= Len(enq)
       /\ deq = SubSeq(enq, 1, Len(deq))
       /\ Markers(deq, Len(deq)) # {} => deq = enq

\* the body threw after two Items and the consumer has dequeued the Items
\* and the exception
C27_Witness ==
    /\ handle["A"].status = "done"
    /\ handle["A"].throwAt = 2
    /\ Len(streamLog.deq) = 3
    /\ streamLog.deq[3] = makeException("e1")
\* std::vector<int> const expected = {10, 20, 11, 21, 12, 22}, and the Eof
Expected ==
    <<makeItem(10), makeItem(20), makeItem(11), makeItem(21), makeItem(12), makeItem(22),
      makeEof(NoVal)>>

SelectPcs == {"tf_loop", "wf_loop", "rap_loop"}
RunPcs == {"tf_run", "wf_run", "rap_run"}
\* in the step thread t, in the loop of threadFunc, waitFor or
\* runAllPending of scheduler s, goes on to run a unit of work
Selects(t, s) ==
    /\ Depth(t) > 0
    /\ Top(t).pc \in SelectPcs
    /\ Top(t).obj = s
    /\ Len(stack'[t]) = Depth(t)
    /\ stack'[t][Depth(t)].pc \in RunPcs
\* the unit of work thread t leaves the step with
Selected(t) == stack'[t][Depth(t)].cb
\* queue q becomes q2 by a push at its end
PushedAtEnd(q, q2) == Len(q2) = Len(q) + 1 /\ SubSeq(q2, 1, Len(q)) = q

\* C29: a scheduler thread takes the oldest runnable handle, and the oldest
\* task only if there is no handle. In every step in which a thread in
\* threadFunc, waitFor or runAllPending goes on to run a unit of work, the
\* unit is the front of m_runnableHandlers, which is popped, if that queue
\* is not empty, and otherwise the front of m_tasks, which is popped; the
\* queues change in no other way than by such a step or by a push at the
\* end; and a unit of work that runs is the one its thread took.
C29_HandlesBeforeTasksFifo ==
    [][\A s \in Scheds :
        /\ \A t \in Threads : Selects(t, s) =>
            IF m_runnableHandlers[s] # <<>>
            THEN /\ Selected(t) = Head(m_runnableHandlers[s])
                 /\ m_runnableHandlers'[s] = Tail(m_runnableHandlers[s])
                 /\ m_tasks'[s] = m_tasks[s]
            ELSE /\ m_tasks[s] # <<>>
                 /\ Selected(t) = Head(m_tasks[s])
                 /\ m_tasks'[s] = Tail(m_tasks[s])
                 /\ m_runnableHandlers'[s] = <<>>
        /\ m_runnableHandlers'[s] # m_runnableHandlers[s] =>
            \/ \E t \in Threads : Selects(t, s)
            \/ PushedAtEnd(m_runnableHandlers[s], m_runnableHandlers'[s])
        /\ m_tasks'[s] # m_tasks[s] =>
            \/ \E t \in Threads : Selects(t, s)
            \/ PushedAtEnd(m_tasks[s], m_tasks'[s])
        /\ runLog' # runLog =>
            \E t \in Threads :
                /\ Depth(t) > 0
                /\ Top(t).pc \in RunPcs
                /\ Len(runLog') = Len(runLog) + 1
                /\ runLog'[Len(runLog')].cb = Top(t).cb
                /\ runLog'[Len(runLog')].thread = t
      ]_vars

\* a thread inside waitFor has taken the older handle and runs it while the
\* younger handle and two tasks are queued
C29_Witness ==
    \E s \in Scheds : \E t \in Threads :
        /\ At(t, "wf_run")
        /\ Top(t).cb = WorkHandle(1)
        /\ m_runnableHandlers[s] = <<WorkHandle(2)>>
        /\ m_tasks[s] = <<WorkTask(1), WorkTask(2)>>
\* thread t is inside waitFor of scheduler s, with its own token
InWaitFor(t, s) ==
    /\ Depth(t) > 0
    /\ stack[t][1].pc \in {"wf_lock", "wf_loop", "wf_wait", "wf_run"}
    /\ stack[t][1].obj = s
\* in the step the waitFor of thread t on scheduler s returns
WaitForReturns(t, s) == InWaitFor(t, s) /\ stack'[t] = <<>>
\* in the step a markCompleted(w) inserts its token into m_finishedWaiters
Marks(w, s) ==
    \E t \in Threads :
        /\ At(t, "mc_insert")
        /\ Top(t).obj = s
        /\ Top(t).cb.obj = w
        /\ stack'[t] = Popped(t)

\* C30: waitFor(token) returns if and only if markCompleted(token) has been
\* called. A waitFor returns only in a step that finds its own token among
\* the finished waiters and removes it, and nothing else; a token gets
\* there only by a markCompleted of that token and leaves only by the
\* return of its waitFor; and a waitFor whose token is there, put before
\* the wait began, while the waiter ran other work or while it was blocked
\* in m_cv.wait, returns in the end.
C30_WaitForReturnsIffMarked ==
    /\ [][\A s \in Scheds : \A w \in Threads :
            /\ WaitForReturns(w, s) =>
                /\ w \in m_finishedWaiters[s]
                /\ m_finishedWaiters'[s] = m_finishedWaiters[s] \ {w}
            /\ (w \in m_finishedWaiters'[s] /\ w \notin m_finishedWaiters[s]) => Marks(w, s)
            /\ (w \in m_finishedWaiters[s] /\ w \notin m_finishedWaiters'[s])
                => WaitForReturns(w, s)
        ]_vars
    /\ \A s \in Scheds : \A w \in SchedWaiters :
        (InWaitFor(w, s) /\ w \in m_finishedWaiters[s]) ~> ~InWaitFor(w, s)

\* the token of a thread that is not the scheduler's bound thread was
\* marked while the thread was blocked in m_cv.wait, and has woken it; the
\* other token is marked too
C30_Witness ==
    /\ At("t3", "wf_wait")
    /\ m_finishedWaiters["ots"] = {"t1", "t3"}
    /\ "t3" \notin m_cv["ots"]
    /\ runLog # <<>>
(***************************************************************************)
(* Properties of co_await schedulingInfo.                                  *)
(***************************************************************************)
\* in the step thread t evaluates co_await schedulingInfo
AwaitsSched(t) == At(t, "co_await_sched") /\ stack'[t] # stack[t]
\* the coroutine has to switch: the start mode is parallel, or the scheduler
\* is a OneThreadScheduler and the thread is not its bound thread
HasToSwitch(t) ==
    \/ coro[Top(t).val].start = "parallel"
    \/ (Top(t).cb.sch = "ots" /\ t # m_threadId)

\* C31: on co_await schedulingInfo the coroutine suspends and is made
\* runnable on the scheduler exactly when the start mode is parallel or the
\* scheduler's initSwitchThread() is true (never for a ThreadPool, for a
\* OneThreadScheduler iff the caller is not the bound thread). In a step
\* that evaluates the await, either the coroutine has to switch, is
\* suspended, and its thread goes on to markRunnable(handle) on that
\* scheduler, or it has not, stays running and goes on with its body on the
\* same thread; and a handle is pushed only on the scheduler of the
\* markRunnable that pushes it.
C31_SuspendsIffParallelOrSwitch ==
    [][/\ \A t \in Threads : AwaitsSched(t) =>
            LET k == Top(t).val
                s == Top(t).cb.sch
                after == stack'[t][Len(stack'[t])]
            IN /\ Len(stack'[t]) = Depth(t)
               /\ IF HasToSwitch(t)
                  THEN /\ coro'[k].status = "suspended"
                       /\ after.pc = "mr_lock"
                       /\ after.obj = s
                       /\ after.cb = HandleCb(k)
                  ELSE /\ coro'[k].status = "running"
                       /\ after.pc = "co_seg1"
                       /\ after.val = k
               /\ UNCHANGED m_runnableHandlers
       /\ \A s \in Scheds :
            Len(m_runnableHandlers'[s]) > Len(m_runnableHandlers[s]) =>
                \E t \in Threads :
                    /\ At(t, "mr_push")
                    /\ Top(t).obj = s
                    /\ m_runnableHandlers'[s] = Append(m_runnableHandlers[s], Top(t).cb)
      ]_vars

\* a coroutine started with sameThreadStart() of the OneThreadScheduler by a
\* thread that is not the bound one is suspended and queued there, and one
\* started with parallelStart() of the pool is queued on the pool
C31_Witness ==
    /\ coro[1].start = "sameThread"
    /\ coro[1].starter # m_threadId
    /\ coro[1].status = "suspended"
    /\ m_runnableHandlers["ots"] = <<HandleCb(1)>>
    /\ coro[2].start = "parallel"
    /\ m_runnableHandlers["pool"] = <<HandleCb(2)>>

(***************************************************************************)
(* Properties of ThreadPool::close and ~ThreadPool.                        *)
(***************************************************************************)
\* the tasks and handles handed to the pool
QueuedWork == {w \in HandedOver : w.kind = "count" /\ w.obj \in {"task", "handle"}}
\* those that have been executed
ExecutedWork == {runLog[i].cb : i \in DOMAIN runLog} \cap QueuedWork
\* ~ThreadPool has returned
Destroyed == At(PoolOwner, "destroyed")
\* close() has returned and the destructor joins m_threads
Closed == At(PoolOwner, "join") \/ Destroyed
\* the size of m_threads
NrThreads == stack[PoolOwner][1].val
\* thread t returns from threadFunc in this step
ExitsThreadFunc(t) == t \in LiveWorkers /\ stack'[t] = <<>>

\* C32 as stated, for every pool: when the destructor has returned, every
\* task and every handle that was queued before has been executed.
C32_DestructorReturnsAfterAllWork ==
    Destroyed => QueuedWork \subseteq ExecutedWork

\* C32: a thread returns from threadFunc only in a step that finds m_isEnding
\* set and both queues empty; once close() has returned on a pool that has a
\* thread, all the threads return and the destructor returns; and when the
\* destructor of a pool that has a thread has returned, every task and every
\* handle that was queued before close() has been executed.
C32_PoolWithThreadDrainsBeforeExit ==
    /\ [][\A t \in Threads :
            ExitsThreadFunc(t) =>
                /\ m_isEnding["pool"]
                /\ m_tasks["pool"] = <<>>
                /\ m_runnableHandlers["pool"] = <<>>]_vars
    /\ [](Destroyed /\ NrThreads >= 1 => QueuedWork \subseteq ExecutedWork)
    /\ (Closed /\ NrThreads >= 1) ~> (Destroyed /\ QueuedWork \subseteq ExecutedWork)

\* a pool of two threads is destroyed with a task and a handle queued, and
\* both have been executed
C32_Witness ==
    /\ Destroyed
    /\ NrThreads = 2
    /\ {WorkTask(1), WorkHandle(1)} \subseteq ExecutedWork

(***************************************************************************)
(* executeAsyncLoop against thenAsyncLoop.                                 *)
(***************************************************************************)
\* how a future ended
OutcomeOf(c) == <<m_state[c], m_val[c], m_exception[c]>>
\* what was called on what, and what it did
Invocations(log) ==
    [i \in DOMAIN log |->
        <<log[i].fn, log[i].arg, log[i].out.st, log[i].out.err, log[i].out.more,
          IF log[i].out.ret = NoCell THEN <<>> ELSE OutcomeOf(log[i].out.ret)>>]
\* both loops were started and nothing is running or queued any more
BothLoopsOver ==
    /\ thenCalls["S"] # "none"
    /\ ThenLoopOver
    /\ m_tasks["pool"] = <<>>

\* C33 as stated: executeAsyncLoop on start ends as thenAsyncLoop on a
\* completed future holding start does, for the same predicate and body:
\* once both are over, the two futures have the same state, value and error,
\* the same calls of the predicate and the body were made in the same order,
\* and what escaped the one as an exception escaped the other the same way.
C33_ExecuteLoopSameAsThenLoop ==
    BothLoopsOver =>
        /\ OutcomeOf("S") = OutcomeOf("R")
        /\ Invocations(ExecLoopCalls) = Invocations(ThenLoopCalls)
        /\ Len(escaped) \in {0, 2}
        /\ Len(escaped) = 2 =>
              escaped[1].err = escaped[2].err /\ escaped[1].to = escaped[2].to

(***************************************************************************)
(* Properties of the suspension of a coroutine at an await.                *)
(***************************************************************************)
\* the coroutine handles
CoHandles == {HandleCb(k) : k \in Coros} \cup {StreamHandleCb(g) : g \in Streams}
FramesOf == UNION {{<<t, i>> : i \in DOMAIN stack[t]} : t \in Threads}
\* the calls of markRunnable(h) in progress, and the frames in which h has
\* been taken from the queue and is about to be resumed
InMarkRunnable(h) ==
    {p \in FramesOf : stack[p[1]][p[2]].cb = h /\ stack[p[1]][p[2]].pc \in {"mr_lock", "mr_push"}}
TakenToResume(h) ==
    {p \in FramesOf :
        LET f == stack[p[1]][p[2]] IN
        \/ f.cb = h /\ f.pc \notin {"mr_lock", "mr_push"}
        \/ h.kind = "handle" /\ f.pc = "co_resume" /\ f.val = h.n}
\* the places of h in the queues of runnable handles
InRunnableHandlers(h) ==
    UNION {{<<s, i>> : i \in {j \in DOMAIN m_runnableHandlers[s] : m_runnableHandlers[s][j] = h}} :
            s \in Scheds}
\* how many times h is on its way to be resumed
TimesRunnable(h) ==
    Cardinality(InMarkRunnable(h)) + Cardinality(InRunnableHandlers(h))
        + Cardinality(TakenToResume(h))

\* the coroutine of h is suspended, and where it goes on when resumed
IsSuspended(h) ==
    IF h.kind = "handle" THEN coro[h.n].status = "suspended"
    ELSE handle[h.obj].status = "suspended"
ResumePoint(h) == IF h.kind = "handle" THEN coro[h.n].pc ELSE handle[h.obj].pc
\* the coroutine is suspended at an await on a future, on a stream or at a
\* yield
AtAwait(h) == IsSuspended(h) /\ ResumePoint(h) \in {"co_seg2", "y_enqueue", "c_resume"}
\* what that await waits for holds: the future is complete, the queue the
\* coroutine yields into has a slot, the stream it awaits has an element
AwaitedHolds(h) ==
    CASE ResumePoint(h) = "co_seg2" -> m_state[Awaited(h.n)] # not_completed
      [] ResumePoint(h) = "y_enqueue" -> isSlotAvailable(promise[h.obj].m_queue)
      [] ResumePoint(h) = "c_resume" ->
            isValueAvailable(promise[Src(handle[h.obj].i)].m_queue)
      [] OTHER -> TRUE
\* no thread can take a step of the library
Stopped(t) ==
    \/ Idle(t)
    \/ (Top(t).pc \in {"tf_wait", "wf_wait"} /\ t \in m_cv[Top(t).obj])
\* a resume of a coroutine that was not suspended
ResumedUnsuspended == (\E k \in Coros : coro[k].fault) \/ streamLog.fault # {}

\* C34: a coroutine handle is on its way to be resumed (in markRunnable, in
\* m_runnableHandlers, or taken from there) at most once at a time, only
\* while its coroutine is suspended, and, for a coroutine suspended at an
\* await on a future, on a stream or at a yield, only when what it waits for
\* holds; no coroutine is resumed that is not suspended; when every thread
\* has stopped, a coroutine suspended at such an await whose condition holds
\* has its handle queued; and again and again every coroutine that is
\* suspended at such an await whose condition holds has its handle in
\* m_runnableHandlers or taken from there to be resumed, so that none stays
\* suspended with its handle not queued, under every interleaving of
\* await_ready and await_suspend with the completion, the enqueue or the
\* dequeue.
C34_HandleMadeRunnableOncePerSuspension ==
    /\ [](\A h \in CoHandles :
            /\ TimesRunnable(h) <= 1
            /\ TimesRunnable(h) = 1 => IsSuspended(h) /\ AwaitedHolds(h)
            /\ ((\A t \in Threads : Stopped(t)) /\ AtAwait(h) /\ AwaitedHolds(h))
                    => TimesRunnable(h) = 1)
    /\ [](~ResumedUnsuspended)
    /\ []<>(\A h \in CoHandles :
                (AtAwait(h) /\ AwaitedHolds(h))
                    => (InRunnableHandlers(h) # {} \/ TakenToResume(h) # {}))

\* all three kinds of await have suspended a coroutine that was then made
\* runnable when the condition came to hold: the compound awaiting a
\* generator's element, a generator at a yield, and (in the other test) a
\* coroutine awaiting the future F
C34_Witness ==
    /\ \E g \in Generators :
        /\ AtAwait(StreamHandleCb(g))
        /\ InRunnableHandlers(StreamHandleCb(g)) # {}
    /\ AtAwait(StreamHandleCb("C"))
    /\ ResumePoint(StreamHandleCb("C")) = "c_resume"
    /\ InRunnableHandlers(StreamHandleCb("C")) # {}

(***************************************************************************)
(* Properties of the lifetime of a coroutine frame.                        *)
(***************************************************************************)
\* the coroutine of handle h, with its reference count
CoroutineOf(h) ==
    IF h.kind = "handle"
    THEN [status |-> coro[h.n].status, refcount |-> coro[h.n].refcount,
          destroyed |-> coro[h.n].destroyed, holders |-> coro[h.n].holders]
    ELSE [status |-> handle[h.obj].status, refcount |-> promise[h.obj].m_refcount,
          destroyed |-> handle[h.obj].destroyed, holders |-> handle[h.obj].holders]
\* the reference the promise's constructor takes and final_suspend gives back
OwnReference(c) == IF c.status \in {"new", "done"} THEN 0 ELSE 1

\* C35: the frame of a coroutine is destroyed at most once, and it has been
\* destroyed exactly when the coroutine is at its final suspension and no
\* Future or StreamSource of it is held any more (by the test or by the
\* frame of a coroutine that awaits it), so never while the coroutine is
\* running or suspended at another await, and never with its handle in
\* markRunnable, queued or taken to be resumed; the reference count is the
\* number of those holders plus one until final_suspend, and is never
\* negative.
C35_FrameDestroyedOnceAfterFinalAndRelease ==
    \A h \in CoHandles :
        LET c == CoroutineOf(h) IN
        /\ c.destroyed <= 1
        /\ c.destroyed = 1 <=> (c.status = "done" /\ c.holders = {})
        /\ c.destroyed = 1 => TimesRunnable(h) = 0
        /\ c.refcount = OwnReference(c) + Cardinality(c.holders)
        /\ c.refcount >= 0

\* the compound has ended and the test has let its StreamSource go: the
\* frame of the compound is destroyed and, the generators having ended, so
\* are theirs, which it held
C35_Witness ==
    /\ \A g \in Streams : handle[g].destroyed = 1
    /\ \A g \in Streams : promise[g].m_refcount = 0

(***************************************************************************)
(* Properties of the lifetime of the output cell of an operator.           *)
(***************************************************************************)
\* what the operator registers on F and what its onFutureCompleted enqueues
IsOperatorCallback(cb) == cb.kind \in {"then", "catch_all"} /\ cb.obj = "R"
IsOperatorTask(cb) == cb.kind \in {"then_task", "catch_all_task"} /\ cb.obj = "R"
\* the frames of all threads
AllFrames == UNION {{stack[t][i] : i \in DOMAIN stack[t]} : t \in Threads}
\* pRet in the operator, then the Future it returned, until that is let go
CallerHolds == thenCalls["R"] \in {"calling", "returned"}
\* the lambda [pRet] registered on F: in m_continuations, or in the local
\* continuations of a notify() that has yet to call it or is calling it
\* (the local is destroyed as notify returns, once the chain has run)
CallbackHolds ==
    \/ \E i \in DOMAIN m_continuations["F"] : IsOperatorCallback(m_continuations["F"][i])
    \/ \E t \in Threads : \E i \in DOMAIN stack[t] :
        /\ stack[t][i].obj = "F"
        /\ stack[t][i].pc \in {"notify_state", "notify_run"}
        /\ \/ \E j \in DOMAIN stack[t][i].conts : IsOperatorCallback(stack[t][i].conts[j])
           \/ i < Len(stack[t])
\* a lambda that captured pThis: handed to enqueue, in m_tasks, or being
\* run by a thread of the pool. [this, pException] of
\* ContinuationTaskCatchAll captures no IntrusiveSharedPtr.
TaskHolds ==
    \/ \E i \in DOMAIN m_tasks["pool"] : m_tasks["pool"][i].kind = "then_task"
    \/ \E f \in AllFrames : f.cb.kind = "then_task"
\* the reference count of the task of cell R is not zero
OutputCellAlive == CallerHolds \/ CallbackHolds \/ TaskHolds
\* a callback or task of the operator is registered, queued or running
OperatorWorkLeft ==
    \/ \E i \in DOMAIN m_continuations["F"] : IsOperatorCallback(m_continuations["F"][i])
    \/ \E i \in DOMAIN m_tasks["pool"] : IsOperatorTask(m_tasks["pool"][i])
    \/ \E f \in AllFrames :
        \/ IsOperatorCallback(f.cb) \/ IsOperatorTask(f.cb)
        \/ \E j \in DOMAIN f.conts : IsOperatorCallback(f.conts[j])
        \/ (f.obj = "R" /\ f.pc # "then_ret")

\* C36: as long as a callback or an executor task made by then or
\* thenCatchAll is registered, queued or running, or a thread is inside a
\* member function of the output cell, the output cell is alive (its
\* reference count is not zero), also when the caller has let go of the
\* returned future.
C36_OutputCellOutlivesItsTasks ==
    (thenCalls["R"] # "none" /\ OperatorWorkLeft) => OutputCellAlive

(***************************************************************************)
(* Properties of the blocking enqueue and dequeue.                         *)
(***************************************************************************)
\* the thread is inside cv.wait(lck, done) of enqueue / waitForValueAvailable
InEnqueueWait(t) == At(t, "enq_wait") \/ At(t, "enq_woken") \/ At(t, "enq_again")
InDequeueWait(t) == At(t, "deq_wait") \/ At(t, "deq_woken") \/ At(t, "deq_again")

\* a dequeue that finds the queue empty and waits returns once an element
\* has been enqueued
BlockedDequeueReturns ==
    (InDequeueWait(ConsumerThread) /\ m_queue # <<>>) ~> ~cons.busy
\* an enqueue of an Item that finds the queue full and waits returns once
\* an Item has been popped
BlockedEnqueueReturns ==
    (InEnqueueWait(ProducerThread) /\ pops > prod.popsAtFull) ~> ~prod.busy

\* C37: the producer blocked in enqueue (an Item, the queue full) returns in
\* the end once the consumer has popped an Item, and the consumer blocked
\* in dequeue (the queue empty) returns in the end once the producer has
\* pushed an element, with every interleaving of the two threads and with
\* spurious wake-ups of the condition variable.
C37_NoWakeUpIsLost == BlockedDequeueReturns /\ BlockedEnqueueReturns

(***************************************************************************)
(* Properties of the mutexes around user-supplied code.                    *)
(***************************************************************************)
\* the mutexes of cells, of the queue and of the schedulers that t holds
MutexesHeldBy(t) ==
    {c \in Cells : m_mtx[c] = t} \cup {s \in Scheds : sched_mtx[s] = t}
        \cup (IF m_mutex = t THEN {"q"} ELSE {})
\* in this step t calls a callback registered on the cell, a one-shot
\* callback of the queue, or a task or handle handed to a scheduler
CallsUserCode(t) ==
    /\ Len(runLog') = Len(runLog) + 1
    /\ runLog'[Len(runLog')].thread = t
\* t is resuming a coroutine or running its body
InCoroutine(t) ==
    Depth(t) > 0 /\ Top(t).pc \in {"co_resume", "co_await_sched", "co_seg1", "co_seg2"}

\* C38: a thread that calls a callback registered on a cell, a one-shot
\* callback of the queue or a task or handle of a scheduler holds, at the
\* call, no mutex of a cell, of the queue or of a scheduler, and neither
\* does a thread that resumes a coroutine or runs its body.
C38_UserCodeRunsWithoutLibraryMutex ==
    /\ [][\A t \in Threads : CallsUserCode(t) => MutexesHeldBy(t) = {}]_vars
    /\ [](\A t \in Threads : InCoroutine(t) => MutexesHeldBy(t) = {})

\* a counting callback of the queue has just been called by the thread
\* that enqueued or dequeued, after it released m_mutex
C38_Witness ==
    /\ runLog # <<>>
    /\ runLog[Len(runLog)].cb.kind = "count"
    /\ runLog[Len(runLog)].site \in {"enq_ret", "deq_ret"}
    /\ m_mutex = NoThread

(***************************************************************************)
(* Properties of the channel of a stream that a coroutine awaits.          *)
(***************************************************************************)
\* the coroutines that await streams: the compound
Awaiters == Streams \ Generators
\* co_await gen of coroutine g is between its suspension and the end of the
\* dequeue of await_resume: g is in await_suspend, suspended at the await
\* (with its handle stored in the queue, in markRunnable or queued), or in
\* await_resume with the dequeue not yet returned
AwaitInProgress(g) ==
    \/ handle[g].status = "suspended" /\ handle[g].pc = "c_resume"
    \/ \E p \in FramesOf :
        LET f == stack[p[1]][p[2]] IN
        /\ f.obj = g
        /\ \/ f.pc \in {"c_suspend", "c_resume"}
           \/ f.pc = "c_got" /\ p[2] < Len(stack[p[1]])
\* the stream whose element g awaits
AwaitedStream(g) == Src(handle[g].i)

CalledWithVector(fs) ==
    /\ thenCalls["R"] # "none"
    /\ taskClass.class = "ContinuationTaskArray"
    /\ taskClass.futures = fs
\* func has been called once and the future returned is not pending
FuncCalledOnceAndDone == Len(callLog) = 1 /\ m_state["R"] # not_completed

\* C40: whenAllFromArrayOfFutures called with the empty vector completes:
\* in the end func has been called once and the returned future is no
\* longer not_completed.
C40_EmptyVectorCompletes == CalledWithVector(<<>>) ~> FuncCalledOnceAndDone

=============================================================================
